---- MODULE Spec2Model ----
(***************************************************************************)
(* Model of the ROM container and rebuild engine of PRSA Rom Manager:      *)
(*   load/lz10util.py   LZ10 codec (compress_lz10 / decompress_lz10)       *)
(*   load/narcutil.py   NARC archive codec (build_narc / parse_narc)       *)
(*   load/saverom.py    header, FAT, FNT walk, ModificationTracker,        *)
(*                      ROMModificationCache, ROMBuilder, ROMSaver         *)
(* Bytes are integers 0..255, byte strings are sequences of bytes (the     *)
(* Python index i is the TLA+ index i+1).  Paths and names are sequences   *)
(* of one-character strings.                                               *)
(***************************************************************************)
EXTENDS Integers, Sequences, FiniteSets, TLC

VARIABLES
    lz,                    \* LZ10 codec run: [pc, data, packed, out]
    narc,                  \* NARC codec run: [pc, files, blob, out]
    crc16,                 \* calculate_crc16 run: [pc, data, value]
    walk,                  \* FNTParser.parse run: [pc, rom, result]
    resolve,               \* resolve_fat_index run: [pc, map, rom_path, file_path, value]
    fs,                    \* file system: path -> [exists, data]
    original_rom_path,     \* ROMModificationCache.original_rom_path
    header,                \* ROMModificationCache.header
    fat_index_map,         \* ROMModificationCache._fat_index_map
    fat_index_map_built,   \* ROMModificationCache._fat_index_map_built
    mods,                  \* ModificationTracker._mods (insertion ordered)
    pc,                    \* position inside ROMSaver.save_rom / build_rom
    sv,                    \* locals of the running build_rom call
    result,                \* value returned by the last save_rom call
    calls                  \* number of API calls made so far, per kind

vars == <<lz, narc, crc16, walk, resolve, fs, original_rom_path, header, fat_index_map,
          fat_index_map_built, mods, pc, sv, result, calls>>

-----------------------------------------------------------------------------
(* Generic helpers on byte strings                                         *)

Min(a, b) == IF a < b THEN a ELSE b

Max(a, b) == IF a > b THEN a ELSE b

\* Python slice s[a:b] for 0 <= a (clamped to the length, empty when b <= a)
Slice(s, a, b) ==
    LET lo == Min(a, Len(s))
        hi == Min(b, Len(s))
    IN  IF hi <= lo THEN <<>> ELSE SubSeq(s, lo + 1, hi)

\* b'\xNN' * n
Repeat(byte, n) == [i \in 1..Max(n, 0) |-> byte]

RECURSIVE Pow2(_)
Pow2(k) == IF k = 0 THEN 1 ELSE 2 * Pow2(k - 1)

\* bitwise exclusive or of two naturals
RECURSIVE XOR(_, _)
XOR(a, b) ==
    IF a = 0 THEN b
    ELSE IF b = 0 THEN a
    ELSE 2 * XOR(a \div 2, b \div 2) + ((a + b) % 2)

\* struct.pack('<I', v): v must fit 32 bits
PackU32(v) == << v % 256, (v \div 256) % 256, (v \div 65536) % 256,
                 (v \div 16777216) % 256 >>

\* struct.pack('<H', v)
PackU16(v) == << v % 256, (v \div 256) % 256 >>

\* b[o] | b[o+1]<<8 | b[o+2]<<16 | b[o+3]<<24   (o is a Python offset)
u32(b, o) == b[o + 1] + 256 * b[o + 2] + 65536 * b[o + 3] + 16777216 * b[o + 4]

\* struct.unpack_from('<H', b, o)
u16(b, o) == b[o + 1] + 256 * b[o + 2]

-----------------------------------------------------------------------------
(* load/lz10util.py                                                        *)

LZ_TAG == 16

HASH_SIZE == 32768

WINDOW == 4096

MAX_MATCH == 18

MIN_MATCH == 3

MAX_CHECKS == 64

\* head / lru are [-1] * HASH_SIZE; kept sparse: a missing key reads -1
Slot(tab, k) == IF k \in DOMAIN tab THEN tab[k] ELSE -1

Put(tab, k, v) == [x \in (DOMAIN tab) \cup {k} |-> IF x = k THEN v ELSE tab[x]]

\* hash3: (d[pos]<<16 | d[pos+1]<<8 | d[pos+2]) & (HASH_SIZE - 1)
hash3(data, pos) ==
    IF pos + 2 >= Len(data) THEN 0
    ELSE (data[pos + 1] * 65536 + data[pos + 2] * 256 + data[pos + 3]) % HASH_SIZE

\* lru[p & HASH_SIZE-1] = head[hash3(p)] ; head[hash3(p)] = p
Insert(data, st, p) ==
    LET h == hash3(data, p)
    IN  [st EXCEPT !.lru = Put(st.lru, p % HASH_SIZE, Slot(st.head, h)),
                   !.head = Put(st.head, h, p)]

\* a comparison loop that trusts the hash chain and compares no byte
MatchLenUnverified(data, j, pos, limit, m) == limit

\* the inner comparison loop of find_best_match
RECURSIVE MatchLen(_, _, _, _, _)
MatchLen(data, j, pos, limit, m) ==
    IF m < limit /\ data[j + m + 1] = data[pos + m + 1]
    THEN MatchLen(data, j, pos, limit, m + 1)
    ELSE m

\* the candidate loop of find_best_match; returns <<best_len, best_dist>>
RECURSIVE Probe(_, _, _, _, _, _, _)
Probe(data, st, pos, j, checked, best_len, best_dist) ==
    IF ~(j >= 0 /\ checked < MAX_CHECKS) THEN <<best_len, best_dist>>
    ELSE IF pos - j > WINDOW THEN <<best_len, best_dist>>
    ELSE IF j >= pos THEN <<best_len, best_dist>>
    ELSE LET limit == Min(MAX_MATCH, Len(data) - pos)
             m == MatchLen(data, j, pos, limit, 0)
             better == m >= MIN_MATCH /\ m > best_len
             bl == IF better THEN m ELSE best_len
             bd == IF better THEN pos - j - 1 ELSE best_dist
         IN  IF better /\ bl = MAX_MATCH THEN <<bl, bd>>
             ELSE Probe(data, st, pos, Slot(st.lru, j % HASH_SIZE),
                        checked + 1, bl, bd)

find_best_match(data, st, pos) ==
    IF pos + 2 >= Len(data) THEN <<0, 0>>
    ELSE Probe(data, st, pos, Slot(st.head, hash3(data, pos)), 0, 0, 0)

\* for i in range(min(4096, n - 2)): insert i
RECURSIVE Prefill(_, _, _)
Prefill(data, st, i) ==
    IF i >= Min(WINDOW, Len(data) - 2) THEN st
    ELSE Prefill(data, Insert(data, st, i), i + 1)

\* for skip in range(1, best_match_len): if pos+skip < n-2: insert pos+skip
RECURSIVE InsertSkipped(_, _, _, _, _)
InsertSkipped(data, st, pos, skip, len) ==
    IF skip >= len THEN st
    ELSE InsertSkipped(data,
                       IF pos + skip < Len(data) - 2
                       THEN Insert(data, st, pos + skip) ELSE st,
                       pos, skip + 1, len)

\* one pass of "for bit in range(8)" of compress_lz10.
\* st = [head, lru, pos, body, flags]; body is the bytes after the flag byte
RECURSIVE EncodeGroup(_, _, _)
EncodeGroup(data, st, bit) ==
    IF bit = 8 \/ st.pos >= Len(data) THEN st
    ELSE
      LET n == Len(data)
          pos == st.pos
          look_ahead == pos + WINDOW
          s1 == IF look_ahead < n - 2 THEN Insert(data, st, look_ahead) ELSE st
          best == find_best_match(data, s1, pos)
          blen == best[1]
          bdist == best[2]
      IN  IF blen >= MIN_MATCH
          THEN LET length_part == (blen - 3) % 16
                   dist_high == (bdist \div 256) % 16
                   dist_low == bdist % 256
                   s2 == InsertSkipped(data, s1, pos, 1, blen)
               IN  EncodeGroup(data,
                     [s2 EXCEPT !.flags = @ + Pow2(7 - bit),
                                !.body = @ \o <<length_part * 16 + dist_high, dist_low>>,
                                !.pos = pos + blen],
                     bit + 1)
          ELSE LET s2 == IF pos < n - 2 THEN Insert(data, s1, pos) ELSE s1
               IN  EncodeGroup(data,
                     [s2 EXCEPT !.body = @ \o <<data[pos + 1]>>,
                                !.pos = pos + 1],
                     bit + 1)

\* "while pos < n": one flag byte followed by up to 8 ops
RECURSIVE EncodeAll(_, _, _)
EncodeAll(data, st, output) ==
    IF st.pos >= Len(data) THEN output
    ELSE LET g == EncodeGroup(data, [st EXCEPT !.body = <<>>, !.flags = 0], 0)
         IN  EncodeAll(data, g, output \o <<g.flags>> \o g.body)

\* output.append(16); append(n & 255); append(n >> 8 & 255); append(n >> 16 & 255)
LzHeader(n) == <<LZ_TAG, n % 256, (n \div 256) % 256, (n \div 65536) % 256>>

\* the first length the three length bytes of the header cannot hold
LZ_LEN_LIMIT == Pow2(24)

compress_lz10(data) ==
    LET n == Len(data)
        hdr == LzHeader(n)
        st0 == [head |-> <<>>, lru |-> <<>>, pos |-> 0, body |-> <<>>, flags |-> 0]
    IN  IF n = 0 THEN hdr
        ELSE EncodeAll(data, Prefill(data, st0, 0), hdr)

RECURSIVE CopyRun(_, _, _)

\* a copy that pads with 255 when its source lies before the output
CopyRunFill(out, copy_pos, left) ==
    IF left = 0 \/ copy_pos >= Len(out) THEN out
    ELSE IF copy_pos < 0 THEN out \o Repeat(255, left)
    ELSE CopyRun(Append(out, out[copy_pos + 1]), copy_pos + 1, left - 1)

\* the copy loop of a back-reference: "for _ in range(length)"
CopyRun(out, copy_pos, left) ==
    IF left = 0 \/ copy_pos < 0 \/ copy_pos >= Len(out) THEN out
    ELSE CopyRun(Append(out, out[copy_pos + 1]), copy_pos + 1, left - 1)

\* "for bit in range(8)" of decompress_lz10; st = [out, src_i]
RECURSIVE DecodeGroup(_, _, _, _, _)
DecodeGroup(data, dst_size, flags, st, bit) ==
    IF bit = 8 THEN st
    ELSE IF Len(st.out) >= dst_size \/ st.src_i >= Len(data) THEN st
    ELSE IF (flags \div Pow2(7 - bit)) % 2 = 0
    THEN DecodeGroup(data, dst_size, flags,
                     [out |-> Append(st.out, data[st.src_i + 1]),
                      src_i |-> st.src_i + 1], bit + 1)
    ELSE IF st.src_i + 1 >= Len(data) THEN st
    ELSE LET b1 == data[st.src_i + 1]
             b2 == data[st.src_i + 2]
             disp == (b1 % 16) * 256 + b2
             length == (b1 \div 16) + 3
             copy_pos == Len(st.out) - (disp + 1)
         IN  DecodeGroup(data, dst_size, flags,
                         [out |-> CopyRun(st.out, copy_pos, length),
                          src_i |-> st.src_i + 2], bit + 1)

\* "while len(out) < dst_size and src_i < len(data)"
RECURSIVE DecodeAll(_, _, _)
DecodeAll(data, dst_size, st) ==
    IF ~(Len(st.out) < dst_size /\ st.src_i < Len(data)) THEN st.out
    ELSE DecodeAll(data, dst_size,
                   DecodeGroup(data, dst_size, data[st.src_i + 1],
                               [st EXCEPT !.src_i = @ + 1], 0))

\* Result of a call: [fault |-> FALSE, out |-> bytes], or a raised exception
Returned(v) == [fault |-> FALSE, out |-> v]

Raised(kind) == [fault |-> TRUE, out |-> kind]

\* dst_size = data[1] | data[2] << 8 | data[3] << 16
DeclaredSize(data) == data[2] + 256 * data[3] + 65536 * data[4]

decompress_lz10(data) ==
    IF Len(data) = 0 \/ data[1] # LZ_TAG THEN Returned(data)
    ELSE IF Len(data) < 4 THEN Raised("IndexError")
    ELSE LET dst_size == DeclaredSize(data)
         IN  Returned(Slice(DecodeAll(data, dst_size, [out |-> <<>>, src_i |-> 4]),
                            0, dst_size))

-----------------------------------------------------------------------------
(* load/narcutil.py                                                        *)

MAGIC_NARC == <<78, 65, 82, 67>>

MAGIC_BTAF == <<66, 84, 65, 70>>

MAGIC_BTNF == <<66, 84, 78, 70>>

MAGIC_GMIF == <<71, 77, 73, 70>>

\* n + 3 & ~3
align4(n) == ((n + 3) \div 4) * 4

\* the loop "for file_data in files" of build_narc:
\* st = [gmif_data, file_offsets]
RECURSIVE PoolLoop(_, _, _)
PoolLoop(files, i, st) ==
    IF i > Len(files) THEN st
    ELSE LET grown == st.gmif_data \o files[i]
             padding == (-Len(grown)) % 4
         IN  PoolLoop(files, i + 1,
                      [gmif_data |-> grown \o Repeat(0, padding),
                       file_offsets |-> Append(st.file_offsets, Len(st.gmif_data))])

\* the loop "for i in range(file_count)" of build_narc
RECURSIVE BtafEntries(_, _, _)
BtafEntries(file_offsets, i, file_count) ==
    IF i >= file_count THEN <<>>
    ELSE PackU32(file_offsets[i + 1]) \o PackU32(file_offsets[i + 2])
         \o BtafEntries(file_offsets, i + 1, file_count)

build_narc(files) ==
    LET pool == PoolLoop(files, 1, [gmif_data |-> <<>>, file_offsets |-> <<>>])
        gmif_data == pool.gmif_data
        file_offsets == Append(pool.file_offsets, Len(gmif_data))
        gmif_size == 8 + Len(gmif_data)
        gmif_section == MAGIC_GMIF \o PackU32(gmif_size) \o gmif_data
        file_count == Len(files)
        btaf_entries == BtafEntries(file_offsets, 0, file_count)
        btaf_size == align4(12 + Len(btaf_entries))
        btaf_padding == btaf_size - (12 + Len(btaf_entries))
        btaf_section == MAGIC_BTAF \o PackU32(btaf_size) \o PackU32(file_count)
                        \o btaf_entries \o Repeat(0, btaf_padding)
        btnf_size == 16
        btnf_section == MAGIC_BTNF \o PackU32(btnf_size) \o Repeat(0, 8)
        total_size == 16 + Len(btaf_section) + Len(btnf_section) + Len(gmif_section)
        hdr == MAGIC_NARC \o <<254, 255>> \o <<0, 1>> \o PackU32(total_size)
               \o PackU16(16) \o PackU16(3)
    IN  hdr \o btaf_section \o btnf_section \o gmif_section

\* u32(blob, o) raises IndexError unless its four bytes lie inside blob
CanRead32(blob, o) == o + 4 <= Len(blob)

\* the loop "for i in range(count)" of parse_narc; a read past the end raises
RECURSIVE ReadEntries(_, _, _, _, _)
ReadEntries(blob, entries_off, i, count, acc) ==
    IF i >= count THEN Returned(acc)
    ELSE IF ~CanRead32(blob, entries_off + i * 8 + 4) THEN Raised("IndexError")
    ELSE ReadEntries(blob, entries_off, i + 1, count,
                     Append(acc, <<u32(blob, entries_off + i * 8),
                                   u32(blob, entries_off + i * 8 + 4)>>))

parse_narc(blob) ==
    IF Slice(blob, 0, 4) # MAGIC_NARC THEN Raised("ValueError: Not a NARC file")
    ELSE LET off == 16 IN
    IF Slice(blob, off, off + 4) # MAGIC_BTAF THEN Raised("ValueError: NARC missing BTAF")
    ELSE IF ~CanRead32(blob, off + 8) THEN Raised("IndexError")
    ELSE LET btaf_size == u32(blob, off + 4)
             count == u32(blob, off + 8)
             entries == ReadEntries(blob, off + 12, 0, count, <<>>)
             fntb_off == off + btaf_size
         IN
    IF entries.fault THEN entries
    ELSE IF Slice(blob, fntb_off, fntb_off + 4) # MAGIC_BTNF
         THEN Raised("ValueError: NARC missing BTNF")
    ELSE IF ~CanRead32(blob, fntb_off + 4) THEN Raised("IndexError")
    ELSE LET fntb_size == u32(blob, fntb_off + 4)
             fimg_off == fntb_off + fntb_size
             base == fimg_off + 8
         IN
    IF Slice(blob, fimg_off, fimg_off + 4) # MAGIC_GMIF
    THEN Raised("ValueError: NARC missing GMIF")
    ELSE Returned([k \in 1..Len(entries.out) |->
                     Slice(blob, base + entries.out[k][1], base + entries.out[k][2])])

-----------------------------------------------------------------------------
(* load/saverom.py: checksum and header                                    *)

CRC16_TABLE == <<
        0, 49345, 49537,   320, 49921,   960,   640, 49729,
    50689,  1728,  1920, 51009,  1280, 50625, 50305,  1088,
    52225,  3264,  3456, 52545,  3840, 53185, 52865,  3648,
     2560, 51905, 52097,  2880, 51457,  2496,  2176, 51265,
    55297,  6336,  6528, 55617,  6912, 56257, 55937,  6720,
     7680, 57025, 57217,  8000, 56577,  7616,  7296, 56385,
     5120, 54465, 54657,  5440, 55041,  6080,  5760, 54849,
    53761,  4800,  4992, 54081,  4352, 53697, 53377,  4160,
    61441, 12480, 12672, 61761, 13056, 62401, 62081, 12864,
    13824, 63169, 63361, 14144, 62721, 13760, 13440, 62529,
    15360, 64705, 64897, 15680, 65281, 16320, 16000, 65089,
    64001, 15040, 15232, 64321, 14592, 63937, 63617, 14400,
    10240, 59585, 59777, 10560, 60161, 11200, 10880, 59969,
    60929, 11968, 12160, 61249, 11520, 60865, 60545, 11328,
    58369,  9408,  9600, 58689,  9984, 59329, 59009,  9792,
     8704, 58049, 58241,  9024, 57601,  8640,  8320, 57409,
    40961, 24768, 24960, 41281, 25344, 41921, 41601, 25152,
    26112, 42689, 42881, 26432, 42241, 26048, 25728, 42049,
    27648, 44225, 44417, 27968, 44801, 28608, 28288, 44609,
    43521, 27328, 27520, 43841, 26880, 43457, 43137, 26688,
    30720, 47297, 47489, 31040, 47873, 31680, 31360, 47681,
    48641, 32448, 32640, 48961, 32000, 48577, 48257, 31808,
    46081, 29888, 30080, 46401, 30464, 47041, 46721, 30272,
    29184, 45761, 45953, 29504, 45313, 29120, 28800, 45121,
    20480, 37057, 37249, 20800, 37633, 21440, 21120, 37441,
    38401, 22208, 22400, 38721, 21760, 38337, 38017, 21568,
    39937, 23744, 23936, 40257, 24320, 40897, 40577, 24128,
    23040, 39617, 39809, 23360, 39169, 22976, 22656, 38977,
    34817, 18624, 18816, 35137, 19200, 35777, 35457, 19008,
    19968, 36545, 36737, 20288, 36097, 19904, 19584, 35905,
    17408, 33985, 34177, 17728, 34561, 18368, 18048, 34369,
    33281, 17088, 17280, 33601, 16640, 33217, 32897, 16448 >>

\* the step with the table indexed by the byte alone
CrcStepByteOnly(crc, byte) ==
    XOR((crc \div 256) % 256, CRC16_TABLE[byte + 1])

\* crc = (crc >> 8 & 255) ^ CRC16_TABLE[(crc ^ byte) & 255]
CrcStep(crc, byte) ==
    XOR((crc \div 256) % 256, CRC16_TABLE[XOR(crc % 256, byte) + 1])

\* "for byte in data" over data[lo..hi], left to right: the range is cut at
\* its middle m, the left part is run first and its register value c is the
\* start of the right part (c and m are bound as values, which keeps the
\* evaluation shallow; the bytes are still consumed in order).
RECURSIVE CrcLoop(_, _, _, _)
CrcLoop(data, lo, hi, crc) ==
    IF lo > hi THEN crc
    ELSE IF lo = hi THEN CrcStep(crc, data[lo])
    ELSE CHOOSE r \in { CrcLoop(data, m + 1, hi, c) :
                            m \in {(lo + hi) \div 2},
                            c \in {CrcLoop(data, lo, (lo + hi) \div 2, crc)} } : TRUE

calculate_crc16(data) == CrcLoop(data, 1, Len(data), 65535) % 65536

HEADER_SIZE == 512

OFF_FNT_ADDR == 64

OFF_FNT_SIZE == 68

OFF_FAT_ADDR == 72

OFF_FAT_SIZE == 76

OFF_ROM_SIZE == 128

OFF_HEADER_CRC == 350

\* header = None
NoHeader ==
    [loaded |-> FALSE, bytes_0_64 |-> <<>>, filename_table_addr |-> 0,
     filename_size |-> 0, fat_addr |-> 0, fat_size |-> 0, bytes_80_128 |-> <<>>,
     rom_size |-> 0, bytes_132_350 |-> <<>>, header_crc16 |-> 0,
     bytes_352_512 |-> <<>>]

\* NDSHeader.from_bytes for len(data) >= 512.  The fields the engine never
\* reads are kept as the byte ranges they are parsed from and packed back to
\* (every one is a fixed-width unsigned field or a byte slice, and together
\* with the six named fields they tile [0, 512)).
NDSHeader_from_bytes(data) ==
    [loaded |-> TRUE,
     bytes_0_64 |-> Slice(data, 0, OFF_FNT_ADDR),
     filename_table_addr |-> u32(data, OFF_FNT_ADDR),
     filename_size |-> u32(data, OFF_FNT_SIZE),
     fat_addr |-> u32(data, OFF_FAT_ADDR),
     fat_size |-> u32(data, OFF_FAT_SIZE),
     bytes_80_128 |-> Slice(data, 80, OFF_ROM_SIZE),
     rom_size |-> u32(data, OFF_ROM_SIZE),
     bytes_132_350 |-> Slice(data, 132, OFF_HEADER_CRC),
     header_crc16 |-> u16(data, OFF_HEADER_CRC),
     bytes_352_512 |-> Slice(data, 352, HEADER_SIZE)]

NDSHeader_to_bytes(h) ==
    h.bytes_0_64 \o PackU32(h.filename_table_addr) \o PackU32(h.filename_size)
    \o PackU32(h.fat_addr) \o PackU32(h.fat_size) \o h.bytes_80_128
    \o PackU32(h.rom_size) \o h.bytes_132_350 \o PackU16(h.header_crc16)
    \o h.bytes_352_512

\* self.header_crc16 = calculate_crc16(self.to_bytes()[:350])
update_crc(h) ==
    [h EXCEPT !.header_crc16 =
        calculate_crc16(Slice(NDSHeader_to_bytes(h), 0, OFF_HEADER_CRC))]

\* FATEntry.from_bytes over fat_raw, "for i in range(0, len(fat_raw), 8)"
RECURSIVE FatFromBytes(_, _)
FatFromBytes(fat_raw, i) ==
    IF i >= Len(fat_raw) THEN <<>>
    ELSE IF i + 8 <= Len(fat_raw)
    THEN <<[start_addr |-> u32(fat_raw, i), end_addr |-> u32(fat_raw, i + 4)]>>
         \o FatFromBytes(fat_raw, i + 8)
    ELSE FatFromBytes(fat_raw, i + 8)

\* FATEntry.size
EntrySize(e) == e.end_addr - e.start_addr

\* FATEntry.to_bytes for each entry, concatenated
RECURSIVE FatToBytes(_, _)
FatToBytes(entries, k) ==
    IF k > Len(entries) THEN <<>>
    ELSE PackU32(entries[k].start_addr) \o PackU32(entries[k].end_addr)
         \o FatToBytes(entries, k + 1)

\* no alignment at all
_align4Off(value) == value

\* value + 3 & ~3
_align4(value) == ((value + 3) \div 4) * 4

-----------------------------------------------------------------------------
(* Text: names and paths are sequences of one-character strings            *)

LowerLetters == << "a", "b", "c", "d", "e", "f", "g", "h", "i", "j", "k", "l", "m",
                   "n", "o", "p", "q", "r", "s", "t", "u", "v", "w", "x", "y", "z" >>

UpperLetters == << "A", "B", "C", "D", "E", "F", "G", "H", "I", "J", "K", "L", "M",
                   "N", "O", "P", "Q", "R", "S", "T", "U", "V", "W", "X", "Y", "Z" >>

\* bytes.decode('ascii', errors='replace'), one byte: letters, '.', '/', '_'
\* decode to themselves; every other byte is shown as "?"
AsciiChar(b) ==
    IF b \in 97..122 THEN LowerLetters[b - 96]
    ELSE IF b \in 65..90 THEN UpperLetters[b - 64]
    ELSE IF b = 46 THEN "."
    ELSE IF b = 47 THEN "/"
    ELSE IF b = 95 THEN "_"
    ELSE "?"

\* str.lower(), one character
LowerChar(c) ==
    IF \E k \in 1..26 : UpperLetters[k] = c
    THEN LowerLetters[CHOOSE k \in 1..26 : UpperLetters[k] = c]
    ELSE c

Lower(s) == [i \in 1..Len(s) |-> LowerChar(s[i])]

Decode(bytes) == [i \in 1..Len(bytes) |-> AsciiChar(bytes[i])]

StartsWith(s, p) == Len(p) <= Len(s) /\ SubSeq(s, 1, Len(p)) = p

\* str.lstrip('/')
RECURSIVE LStripSlash(_)
LStripSlash(s) ==
    IF s # <<>> /\ s[1] = "/" THEN LStripSlash(Tail(s)) ELSE s

\* str.split('/')
RECURSIVE Split(_, _)
Split(s, cur) ==
    IF s = <<>> THEN <<cur>>
    ELSE IF s[1] = "/" THEN <<cur>> \o Split(Tail(s), <<>>)
    ELSE Split(Tail(s), Append(cur, s[1]))

\* '/'.join(parts[start:])   (start is a Python index)
RECURSIVE Join(_, _)
Join(parts, start) ==
    IF start >= Len(parts) THEN <<>>
    ELSE IF start = Len(parts) - 1 THEN parts[start + 1]
    ELSE parts[start + 1] \o <<"/">> \o Join(parts, start + 1)

\* index of the last "/" of an absolute path (0 when there is none)
RECURSIVE LastSlash(_, _)
LastSlash(s, i) ==
    IF i = 0 THEN 0 ELSE IF s[i] = "/" THEN i ELSE LastSlash(s, i - 1)

\* Path.name
PathName(p) == SubSeq(p, LastSlash(p, Len(p)) + 1, Len(p))

\* Path.parent of an absolute path
PathParent(p) ==
    LET k == LastSlash(p, Len(p))
    IN  IF k <= 1 THEN <<"/">> ELSE SubSeq(p, 1, k - 1)

\* index of the last "." of a name (0 when there is none)
RECURSIVE LastDot(_, _)
LastDot(s, i) ==
    IF i = 0 THEN 0 ELSE IF s[i] = "." THEN i ELSE LastDot(s, i - 1)

\* Path.stem: the name without its last suffix
PathStem(p) ==
    LET name == PathName(p)
        k == LastDot(name, Len(name))
    IN  IF k <= 1 \/ k = Len(name) THEN name ELSE SubSeq(name, 1, k - 1)

\* parent / child
PathJoin(parent, child) ==
    IF parent = <<"/">> THEN parent \o child ELSE parent \o <<"/">> \o child

\* Path.resolve() of an absolute path with no symbolic link: empty and "."
\* segments are dropped and ".." removes the segment before it
RECURSIVE ResolveParts(_, _)
ResolveParts(parts, acc) ==
    IF parts = <<>> THEN acc
    ELSE IF Head(parts) = <<>> \/ Head(parts) = <<".">>
    THEN ResolveParts(Tail(parts), acc)
    ELSE IF Head(parts) = <<".", ".">>
    THEN ResolveParts(Tail(parts),
                      IF acc = <<>> THEN acc ELSE SubSeq(acc, 1, Len(acc) - 1))
    ELSE ResolveParts(Tail(parts), Append(acc, Head(parts)))

RECURSIVE JoinAbsolute(_)
JoinAbsolute(parts) ==
    IF parts = <<>> THEN <<>>
    ELSE <<"/">> \o Head(parts) \o JoinAbsolute(Tail(parts))

PathResolve(p) ==
    LET parts == ResolveParts(Split(p, <<>>), <<>>)
    IN  IF parts = <<>> THEN <<"/">> ELSE JoinAbsolute(parts)

EXTRACTED_SUFFIX == << "_", "e", "x", "t", "r", "a", "c", "t", "e", "d" >>

\* original_rom_path = None
NoPath == <<>>

-----------------------------------------------------------------------------
(* load/saverom.py: FNTParser                                              *)

ROOT_DIR_ID == 61440

\* nested _walk_dir calls the interpreter allows before it raises
\* RecursionError (sys.getrecursionlimit() frames in all, 1000 by default)
RecursionLimit == 4

\* what a walk carries along: the index dict, whether an exception is
\* propagating, and the end of the highest range of rom read so far
NoWalk == [index |-> <<>>, raised |-> FALSE, top |-> 0]

\* a read of rom[.. : hi]
Read(w, hi) == [w EXCEPT !.top = IF hi > @ THEN hi ELSE @]

RECURSIVE _walk_dir(_, _, _, _, _, _, _)
RECURSIVE WalkEntries(_, _, _, _, _, _, _, _)

\* a loop whose counter is also advanced by the files a subdirectory added
WalkEntriesCounting(rom, fnt_base, fnt_size, pos, current_file_idx, parent_path, w, depth) ==
    IF w.raised \/ ~(pos < fnt_base + fnt_size /\ pos < Len(rom)) THEN w
    ELSE
      LET type_len == rom[pos + 1]
          p1 == pos + 1
          name_len == type_len % 128
          name == Decode(Slice(rom, p1, p1 + name_len))
          p2 == p1 + name_len
          full_path == Lower(IF parent_path # <<>>
                             THEN parent_path \o <<"/">> \o name ELSE name)
      IN  IF type_len = 0 \/ p1 + name_len > Len(rom) THEN Read(w, p1)
          ELSE IF type_len >= 128
          THEN IF p2 + 2 > Len(rom) THEN Read(w, p2)
               ELSE CHOOSE r \in
                      { WalkEntries(rom, fnt_base, fnt_size, next,
                                    current_file_idx + Cardinality(DOMAIN sub.index)
                                        - Cardinality(DOMAIN w.index),
                                    parent_path, sub, depth) :
                          next \in {p2 + 2},
                          sub \in {_walk_dir(rom, fnt_base, fnt_size, u16(rom, p2),
                                             full_path, Read(w, p2 + 2), depth + 1)} } : TRUE
          ELSE CHOOSE r \in
                 { WalkEntries(rom, fnt_base, fnt_size, next, idx, parent_path, w1, depth) :
                     next \in {p2}, idx \in {current_file_idx + 1},
                     w1 \in {[Read(w, p2) EXCEPT
                                !.index = Put(@, full_path, current_file_idx)]} } : TRUE

\* the "while pos < fnt_end and pos < len(rom)" loop of _walk_dir
WalkEntries(rom, fnt_base, fnt_size, pos, current_file_idx, parent_path, w, depth) ==
    IF w.raised \/ ~(pos < fnt_base + fnt_size /\ pos < Len(rom)) THEN w
    ELSE
      LET type_len == rom[pos + 1]
          p1 == pos + 1
          is_subdir == type_len >= 128
          name_len == type_len % 128
          name == Decode(Slice(rom, p1, p1 + name_len))
          p2 == p1 + name_len
          full_path == Lower(IF parent_path # <<>>
                             THEN parent_path \o <<"/">> \o name ELSE name)
      IN  IF type_len = 0 THEN Read(w, p1)
          ELSE IF p1 + name_len > Len(rom) THEN Read(w, p1)
          ELSE IF is_subdir
          THEN IF p2 + 2 > Len(rom) THEN Read(w, p2)
               ELSE CHOOSE r \in
                      { WalkEntries(rom, fnt_base, fnt_size, next, current_file_idx,
                                    parent_path, sub, depth) :
                          next \in {p2 + 2},
                          sub \in {_walk_dir(rom, fnt_base, fnt_size, u16(rom, p2),
                                             full_path, Read(w, p2 + 2), depth + 1)} } : TRUE
          ELSE CHOOSE r \in
                 { WalkEntries(rom, fnt_base, fnt_size, next, idx, parent_path, w1, depth) :
                     next \in {p2}, idx \in {current_file_idx + 1},
                     w1 \in {[Read(w, p2) EXCEPT
                                !.index = Put(@, full_path, current_file_idx)]} } : TRUE

\* FNTParser._walk_dir, the depth-th nested call
_walk_dir(rom, fnt_base, fnt_size, dir_id, parent_path, w, depth) ==
    LET dir_num == dir_id % 4096
        dir_entry_offset == fnt_base + dir_num * 8
    IN  IF depth > RecursionLimit THEN [w EXCEPT !.raised = TRUE]
        ELSE IF dir_entry_offset + 8 > Len(rom) THEN w
        ELSE LET entries_rel == u32(rom, dir_entry_offset)
                 first_idx == u16(rom, dir_entry_offset + 4)
             IN  CHOOSE r \in
                   { WalkEntries(rom, fnt_base, fnt_size, pos, current_file_idx,
                                 path, w1, depth) :
                       pos \in {fnt_base + entries_rel}, current_file_idx \in {first_idx},
                       path \in {parent_path},
                       w1 \in {Read(w, dir_entry_offset + 6)} } : TRUE

\* the walk FNTParser.parse starts with an empty index
RootWalk(rom_data, fnt_offset, fnt_size) ==
    _walk_dir(rom_data, fnt_offset, fnt_size, ROOT_DIR_ID, <<>>, NoWalk, 1)

\* FNTParser.parse: "except Exception" ends a walk that raised, and the
\* index as it is then is returned
FNTParser_parse(rom_data, fnt_offset, fnt_size) ==
    RootWalk(rom_data, fnt_offset, fnt_size).index

-----------------------------------------------------------------------------
(* load/saverom.py: ROMModificationCache.resolve_fat_index                 *)

\* "for start in range(len(parts))": first suffix that is a key
RECURSIVE SuffixMatch(_, _, _)
SuffixMatch(map, parts, start) ==
    IF start >= Len(parts) THEN -1
    ELSE IF Join(parts, start) \in DOMAIN map THEN map[Join(parts, start)]
    ELSE SuffixMatch(map, parts, start + 1)

resolve_fat_index(map, rom_path, file_path) ==
    LET abs_str == file_path
        lower_str == Lower(abs_str)
        root_str == Lower(PathJoin(PathParent(rom_path),
                                   PathStem(rom_path) \o EXTRACTED_SUFFIX))
        rel == LStripSlash(SubSeq(lower_str, Len(root_str) + 1, Len(lower_str)))
    IN  IF rom_path # NoPath /\ StartsWith(lower_str, root_str) /\ rel \in DOMAIN map
        THEN map[rel]
        ELSE SuffixMatch(map, Split(lower_str, <<>>), 0)

-----------------------------------------------------------------------------
(* Files on disk.  A write at an offset extends the file when it ends past *)
(* the end, and fills a hole before the offset with zero bytes.            *)

\* f.seek(offset); f.write(bytes)
WriteAt(data, offset, bytes) ==
    IF bytes = <<>> THEN data
    ELSE LET base == IF offset > Len(data)
                     THEN data \o Repeat(0, offset - Len(data)) ELSE data
         IN  SubSeq(base, 1, offset) \o bytes
             \o SubSeq(base, offset + Len(bytes) + 1, Len(base))

NoFile == [exists |-> FALSE, data |-> <<>>]

File(data) == [exists |-> TRUE, data |-> data]

\* a 512-byte header with the given table pointers (everything else zero
\* but the first title byte)
MakeHeader(title, fnt_addr, fnt_size, fat_addr, fat_size, rom_size, crc) ==
    <<title>> \o Repeat(0, 63)
    \o PackU32(fnt_addr) \o PackU32(fnt_size) \o PackU32(fat_addr) \o PackU32(fat_size)
    \o Repeat(0, 48) \o PackU32(rom_size) \o Repeat(0, 218) \o PackU16(crc)
    \o Repeat(0, 160)

\* ROM "/a.n": files x = [544,546) and y = [546,550), 550 bytes
RomPathA == << "/", "a", ".", "n" >>

RomImageA ==
    MakeHeader(65, 512, 13, 528, 16, 550, 4660)
    \o PackU32(8) \o PackU16(0) \o PackU16(1) \o <<1, 120, 1, 121, 0>> \o Repeat(0, 3)
    \o PackU32(544) \o PackU32(546) \o PackU32(546) \o PackU32(550)
    \o <<11, 12, 21, 22, 23, 24>>

\* ROM "/c.n": 539 bytes, one file y whose allocation entry [538,542) reaches
\* past the end of the file
RomPathC == << "/", "c", ".", "n" >>

RomImageC ==
    MakeHeader(67, 512, 11, 528, 8, 539, 0)
    \o PackU32(8) \o PackU16(0) \o PackU16(1) \o <<1, 121, 0>> \o Repeat(0, 5)
    \o PackU32(538) \o PackU32(542)
    \o <<0, 0, 31>>

\* "/b.n": a file too short to hold a header
RomPathB == << "/", "b", ".", "n" >>

RomImageB == <<1, 2, 3>>

\* ROM "/d.n": the image of "/a.n" with a directory table whose file ids
\* start at 1 (x = 1, y = 2) while the allocation table has entries 0 and 1
RomPathD == << "/", "d", ".", "n" >>

RomImageD ==
    MakeHeader(68, 512, 13, 528, 16, 550, 0)
    \o PackU32(8) \o PackU16(1) \o PackU16(1) \o <<1, 120, 1, 121, 0>> \o Repeat(0, 3)
    \o PackU32(544) \o PackU32(546) \o PackU32(546) \o PackU32(550)
    \o <<11, 12, 21, 22, 23, 24>>

\* "/m.n": a path no file has
RomPathM == << "/", "m", ".", "n" >>

OutPath == << "/", "o" >>

RomPaths == {RomPathA, RomPathB, RomPathC, RomPathD, RomPathM}

FsPaths == RomPaths \cup {OutPath}

InitialFs ==
    [p \in FsPaths |->
        IF p = RomPathA THEN File(RomImageA)
        ELSE IF p = RomPathB THEN File(RomImageB)
        ELSE IF p = RomPathC THEN File(RomImageC)
        ELSE IF p = RomPathD THEN File(RomImageD)
        ELSE NoFile]

\* files the caller registers replacements for
PathX == << "/", "a", "_", "e", "x", "t", "r", "a", "c", "t", "e", "d", "/", "x" >>

PathY == << "/", "q", "/", "y" >>

ModPaths == {PathX, PathY}

\* replacement payloads of 2 and 5 bytes, and the empty payload
Payloads == { <<211, 212>>, <<221, 222, 223, 224, 225>> }

EmptyPayload == <<>>

ModTypes == {"direct"}

-----------------------------------------------------------------------------
(* load/saverom.py: ModificationTracker                                    *)

\* index of the record keyed by the resolved path in the ordered dict (0
\* when absent)
KeyPos(ms, path) ==
    IF \E k \in 1..Len(ms) : ms[k].file_path = path
    THEN CHOOSE k \in 1..Len(ms) : ms[k].file_path = path
    ELSE 0

\* ModificationRecord(file_path, new_data, mod_type), fat_index = -1
ModificationRecord(path, data, mod_type) ==
    [file_path |-> path, new_data |-> data, mod_type |-> mod_type, fat_index |-> -1]

\* ModificationRecord.resolved
Resolved(m) == m.fat_index >= 0

\* a register that keeps the record a path already has
registerFirstWins(ms, path, data, mod_type) ==
    IF data = <<>> THEN [ok |-> FALSE, mods |-> ms]
    ELSE IF KeyPos(ms, PathResolve(path)) # 0 THEN [ok |-> TRUE, mods |-> ms]
    ELSE [ok |-> TRUE,
          mods |-> Append(ms, ModificationRecord(PathResolve(path), data, mod_type))]

\* ModificationTracker.register: [ok, mods]
register(ms, path, data, mod_type) ==
    IF data = <<>> THEN [ok |-> FALSE, mods |-> ms]
    ELSE LET key == PathResolve(path)
             k == KeyPos(ms, key)
             record == ModificationRecord(key, data, mod_type)
         IN  [ok |-> TRUE,
              mods |-> IF k = 0 THEN Append(ms, record)
                       ELSE [ms EXCEPT ![k] = record]]

\* ModificationTracker.remove: [ok, mods]
remove(ms, path) ==
    LET k == KeyPos(ms, PathResolve(path))
    IN  IF k = 0 THEN [ok |-> FALSE, mods |-> ms]
        ELSE [ok |-> TRUE,
              mods |-> SubSeq(ms, 1, k - 1) \o SubSeq(ms, k + 1, Len(ms))]

-----------------------------------------------------------------------------
(* load/saverom.py: ROMModificationCache and ROMSaver.initialize           *)
(* A cache value c = [original_rom_path, header, fat_index_map,            *)
(* fat_index_map_built]; operations return [ok, cache].                    *)

Cache ==
    [original_rom_path |-> original_rom_path, header |-> header,
     fat_index_map |-> fat_index_map, fat_index_map_built |-> fat_index_map_built]

SetCache(c) ==
    /\ original_rom_path' = c.original_rom_path
    /\ header' = c.header
    /\ fat_index_map' = c.fat_index_map
    /\ fat_index_map_built' = c.fat_index_map_built

NewCache ==
    [original_rom_path |-> NoPath, header |-> NoHeader,
     fat_index_map |-> <<>>, fat_index_map_built |-> FALSE]

set_rom_path(c, rom_path) ==
    [c EXCEPT !.original_rom_path = rom_path, !.fat_index_map_built = FALSE]

\* open(rom_path).read(512) then NDSHeader.from_bytes; any exception -> False
load_header(c, fsys, rom_path) ==
    IF fsys[rom_path].exists /\ Len(fsys[rom_path].data) >= HEADER_SIZE
    THEN [ok |-> TRUE,
          cache |-> [c EXCEPT !.header =
                        NDSHeader_from_bytes(Slice(fsys[rom_path].data, 0, HEADER_SIZE))]]
    ELSE [ok |-> FALSE, cache |-> c]

build_file_index(c, fsys, rom_path) ==
    IF ~c.header.loaded THEN [ok |-> FALSE, cache |-> c]
    ELSE IF ~fsys[rom_path].exists THEN [ok |-> FALSE, cache |-> c]
    ELSE [ok |-> TRUE,
          cache |-> [c EXCEPT
             !.fat_index_map = FNTParser_parse(fsys[rom_path].data,
                                               c.header.filename_table_addr,
                                               c.header.filename_size),
             !.fat_index_map_built = TRUE]]

\* ROMSaver.initialize
initialize(c, fsys, rom_path) ==
    LET c1 == set_rom_path(c, rom_path)
        h == load_header(c1, fsys, rom_path)
    IN  IF ~h.ok THEN [ok |-> FALSE, cache |-> h.cache]
        ELSE [ok |-> TRUE, cache |-> build_file_index(h.cache, fsys, rom_path).cache]

\* ROMSaver.is_initialized
is_initialized(c) == c.original_rom_path # NoPath /\ c.header.loaded

-----------------------------------------------------------------------------
(* load/saverom.py: ROMBuilder                                             *)

\* a resolution that hands on only the records it could not resolve
ResolveAllConsuming(ms, c) ==
    SelectSeq([k \in 1..Len(ms) |->
                  IF Resolved(ms[k]) THEN ms[k]
                  ELSE [ms[k] EXCEPT !.fat_index =
                           resolve_fat_index(c.fat_index_map, c.original_rom_path,
                                             ms[k].file_path)]],
              LAMBDA m : ~Resolved(m))

\* "for mod in mods: if not mod.resolved: mod.fat_index = resolve_fat_index(...)"
ResolveAll(ms, c) ==
    [k \in 1..Len(ms) |->
        IF Resolved(ms[k]) THEN ms[k]
        ELSE [ms[k] EXCEPT !.fat_index =
                 resolve_fat_index(c.fat_index_map, c.original_rom_path,
                                   ms[k].file_path)]]

\* [m for m in mods if m.resolved]
Resolvable(ms) == SelectSeq(ms, LAMBDA m : Resolved(m))

\* [m for m in mods if not m.resolved]
Unresolvable(ms) == SelectSeq(ms, LAMBDA m : ~Resolved(m))

\* ', '.join / bullet list of m.file_path.name
Names(ms) == [k \in 1..Len(ms) |-> PathName(ms[k].file_path)]

\* ROMBuilder._load_fat: seek(fat_addr); read(fat_size) on the original ROM
_load_fat(c, fsys) ==
    FatFromBytes(Slice(fsys[c.original_rom_path].data, c.header.fat_addr,
                       c.header.fat_addr + c.header.fat_size), 0)

\* the branch a modification takes in the loop of _apply_modifications
ApplyCase(st, mod) ==
    IF mod.fat_index < 0 \/ mod.fat_index >= Len(st.modified_fat) THEN "skip"
    ELSE IF Len(mod.new_data) <= EntrySize(st.modified_fat[mod.fat_index + 1])
    THEN "in_place"
    ELSE "append"

\* an in-place write that leaves the allocation entry as it was
ApplyInPlaceKeepsEntry(st, mod) ==
    [st EXCEPT !.data = WriteAt(st.data, st.modified_fat[mod.fat_index + 1].start_addr,
                                mod.new_data)]

\* new_size <= old_size: seek(old_entry.start_addr); write(new_data)
ApplyInPlace(st, mod) ==
    LET idx == mod.fat_index
        old_entry == st.modified_fat[idx + 1]
        new_size == Len(mod.new_data)
    IN  [st EXCEPT
           !.data = WriteAt(st.data, old_entry.start_addr, mod.new_data),
           !.modified_fat[idx + 1] =
               [start_addr |-> old_entry.start_addr,
                end_addr |-> old_entry.start_addr + new_size]]

\* an append that adds a row to the table instead of patching the entry
ApplyAppendAddsRow(st, mod) ==
    [st EXCEPT
       !.data = WriteAt(st.data, st.current_rom_end, mod.new_data),
       !.modified_fat = Append(@, [start_addr |-> st.current_rom_end,
                                   end_addr |-> st.current_rom_end + Len(mod.new_data)]),
       !.current_rom_end = st.current_rom_end + Len(mod.new_data)]

\* new_size > old_size: pad to the next 4-aligned offset with 0xFF and append
ApplyAppend(st, mod) ==
    LET idx == mod.fat_index
        new_size == Len(mod.new_data)
        aligned_end == _align4(st.current_rom_end)
        padded == IF aligned_end > st.current_rom_end
                  THEN WriteAt(st.data, st.current_rom_end,
                               Repeat(255, aligned_end - st.current_rom_end))
                  ELSE st.data
    IN  [st EXCEPT
           !.data = WriteAt(padded, aligned_end, mod.new_data),
           !.modified_fat[idx + 1] =
               [start_addr |-> aligned_end, end_addr |-> aligned_end + new_size],
           !.current_rom_end = aligned_end + new_size]

\* a loop body that moves an out-of-range index to the last entry of the
\* table instead of skipping the record
ApplyOneClamped(st, mod) ==
    LET last == [mod EXCEPT !.fat_index = Len(st.modified_fat) - 1]
    IN  IF st.modified_fat = <<>> \/ mod.fat_index < 0 THEN st
        ELSE IF mod.fat_index >= Len(st.modified_fat) THEN ApplyInPlace(st, last)
        ELSE IF ApplyCase(st, mod) = "in_place" THEN ApplyInPlace(st, mod)
        ELSE ApplyAppend(st, mod)

\* one iteration of the loop of _apply_modifications over
\* st = [data, modified_fat, current_rom_end]
ApplyOne(st, mod) ==
    IF ApplyCase(st, mod) = "skip" THEN st
    ELSE IF ApplyCase(st, mod) = "in_place" THEN ApplyInPlace(st, mod)
    ELSE ApplyAppend(st, mod)

\* ROMBuilder._write_fat: seek(fat_addr); write(fat_raw)
_write_fat(data, c, fat_entries) ==
    WriteAt(data, c.header.fat_addr, FatToBytes(fat_entries, 1))

\* a header whose checksum is computed before rom_size is set
HeaderForSizeStaleCrc(h, rom_size) == [update_crc(h) EXCEPT !.rom_size = rom_size]

\* ROMBuilder._update_header: the header object of the cache is updated in
\* place and its 512 bytes are written at offset 0
HeaderForSize(h, rom_size) == update_crc([h EXCEPT !.rom_size = rom_size])

_update_header(data, h) ==
    CHOOSE r \in { [header |-> h2, data |-> WriteAt(data, 0, NDSHeader_to_bytes(h2))] :
                       h2 \in {HeaderForSize(h, Len(data))} } : TRUE

\* the value save_rom returns: (ok, message); the message is kept as its
\* kind and the numbers and names it prints
Outcome(ok, kind, applied, unresolved, final_size) ==
    [ok |-> ok, kind |-> kind, applied |-> applied, unresolved |-> unresolved,
     final_size |-> final_size]

Failure(kind) == Outcome(FALSE, kind, 0, <<>>, 0)

NoResult == Outcome(FALSE, "none", 0, <<>>, 0)

\* locals of build_rom while no save is running
NoSave ==
    [output_path |-> NoPath, resolvable |-> <<>>,
     unresolvable |-> <<>>, fat_entries |-> <<>>, modified_fat |-> <<>>,
     current_rom_end |-> 0, i |-> 0]

-----------------------------------------------------------------------------
(* Bounds of the session model                                             *)

MaxInit == 2

MaxReg == 2

MaxSave == 2

MaxOther == 1

-----------------------------------------------------------------------------
(* The session: ROMSaver API calls and the steps of a save                 *)

Idle == pc \in {"idle", "done"}

CodecsIdle ==
    /\ lz = [pc |-> "off"] /\ narc = [pc |-> "off"] /\ crc16 = [pc |-> "off"]
    /\ walk = [pc |-> "off"] /\ resolve = [pc |-> "off"]

SessionInit ==
    /\ fs = InitialFs
    /\ original_rom_path = NoPath
    /\ header = NoHeader
    /\ fat_index_map = <<>>
    /\ fat_index_map_built = FALSE
    /\ mods = <<>>
    /\ pc = "idle"
    /\ sv = NoSave
    /\ result = NoResult
    /\ calls = [init |-> 0, reg |-> 0, save |-> 0, other |-> 0]

Init == CodecsIdle /\ SessionInit

\* what every API call other than save_rom leaves behind
AfterCall == pc' = "idle" /\ sv' = NoSave /\ result' = NoResult

\* ROMSaver.initialize(rom_path)
Initialize ==
    \E rom \in RomPaths :
        /\ Idle /\ calls.init < MaxInit
        /\ \E r \in {initialize(Cache, fs, rom)} : SetCache(r.cache)
        /\ calls' = [calls EXCEPT !.init = @ + 1]
        /\ AfterCall
        /\ UNCHANGED <<lz, narc, crc16, walk, resolve, fs, mods>>

\* ROMSaver.register_modification(file_path, new_data, mod_type)
RegisterCall(path, data, t) ==
    /\ Idle
    /\ mods' = register(mods, path, data, t).mods
    /\ calls' = [calls EXCEPT !.reg = @ + 1]
    /\ AfterCall
    /\ UNCHANGED <<lz, narc, crc16, walk, resolve, fs, original_rom_path, header, fat_index_map,
                   fat_index_map_built>>

Register ==
    \E path \in ModPaths, data \in Payloads \cup {EmptyPayload}, t \in ModTypes :
        calls.reg < MaxReg /\ RegisterCall(path, data, t)

\* ROMSaver.remove_modification(file_path)
RemoveCall(path) ==
    /\ Idle
    /\ mods' = remove(mods, path).mods
    /\ calls' = [calls EXCEPT !.other = @ + 1]
    /\ AfterCall
    /\ UNCHANGED <<lz, narc, crc16, walk, resolve, fs, original_rom_path, header, fat_index_map,
                   fat_index_map_built>>

Remove == \E path \in ModPaths : calls.other < MaxOther /\ RemoveCall(path)

\* ROMSaver.clear_modifications -> ROMModificationCache.clear
ClearCall ==
    /\ Idle
    /\ mods' = <<>>
    /\ fat_index_map' = <<>>
    /\ fat_index_map_built' = FALSE
    /\ calls' = [calls EXCEPT !.other = @ + 1]
    /\ AfterCall
    /\ UNCHANGED <<lz, narc, crc16, walk, resolve, fs, original_rom_path, header>>

ClearModifications == calls.other < MaxOther /\ ClearCall

\* a reset that empties the tracker and the index and keeps path and header
ResetKeepsRom ==
    /\ Idle /\ calls.other < MaxOther
    /\ mods' = <<>>
    /\ fat_index_map' = <<>>
    /\ fat_index_map_built' = FALSE
    /\ calls' = [calls EXCEPT !.other = @ + 1]
    /\ AfterCall
    /\ UNCHANGED <<lz, narc, crc16, walk, resolve, fs, original_rom_path, header>>

\* ROMSaver.reset
Reset ==
    /\ Idle /\ calls.other < MaxOther
    /\ mods' = <<>>
    /\ SetCache(NewCache)
    /\ calls' = [calls EXCEPT !.other = @ + 1]
    /\ AfterCall
    /\ UNCHANGED <<lz, narc, crc16, walk, resolve, fs>>

\* save_rom returns (False, ...) or (True, ...)
Return(outcome) == pc' = "done" /\ result' = outcome

\* ROMSaver.save_rom(output_path) up to the copy step of build_rom
SaveRom ==
    \E out \in {OutPath, original_rom_path} \ {NoPath} :
        /\ Idle /\ calls.save < MaxSave
        /\ calls' = [calls EXCEPT !.save = @ + 1]
        /\ UNCHANGED <<lz, narc, crc16, walk, resolve, fs>>
        /\ \E c1 \in {IF ~fat_index_map_built
                      THEN build_file_index(Cache, fs, original_rom_path).cache
                      ELSE Cache} :
           \E ms1 \in {ResolveAll(mods, c1)} :
               IF ~is_initialized(Cache)
               THEN /\ Return(Failure("not_initialized"))
                    /\ sv' = NoSave
                    /\ UNCHANGED <<original_rom_path, header, fat_index_map,
                                   fat_index_map_built, mods>>
               ELSE IF mods = <<>>
               THEN /\ Return(Failure("no_modifications"))
                    /\ sv' = NoSave
                    /\ UNCHANGED <<original_rom_path, header, fat_index_map,
                                   fat_index_map_built, mods>>
               ELSE IF ~fs[original_rom_path].exists
               THEN /\ Return(Failure("rom_not_found"))
                    /\ sv' = NoSave
                    /\ UNCHANGED <<original_rom_path, header, fat_index_map,
                                   fat_index_map_built, mods>>
               ELSE IF Resolvable(ms1) = <<>>
               THEN /\ Return(Failure("none_resolvable"))
                    /\ sv' = [NoSave EXCEPT !.output_path = out]
                    /\ SetCache(c1)
                    /\ mods' = ms1
               ELSE /\ pc' = "copy"
                    /\ result' = NoResult
                    /\ sv' = [NoSave EXCEPT !.output_path = out,
                                            !.resolvable = Resolvable(ms1),
                                            !.unresolvable = Unresolvable(ms1)]
                    /\ SetCache(c1)
                    /\ mods' = ms1

\* a copy that does not refuse to copy a file onto itself
CopyRomUnchecked ==
    /\ pc = "copy"
    /\ fs' = [fs EXCEPT ![sv.output_path] = File(fs[original_rom_path].data)]
    /\ pc' = "load_fat"
    /\ UNCHANGED <<lz, narc, crc16, walk, resolve, original_rom_path, header, fat_index_map,
                   fat_index_map_built, mods, sv, result, calls>>

\* a copy whose exception no handler catches: the call is left by a raise
CopyRomUncaught ==
    \E io_error \in BOOLEAN :
    /\ pc = "copy"
    /\ UNCHANGED <<lz, narc, crc16, walk, resolve, original_rom_path, header, fat_index_map,
                   fat_index_map_built, mods, sv, calls, result>>
    /\ IF sv.output_path = original_rom_path \/ io_error
       THEN pc' = "raised" /\ UNCHANGED fs
       ELSE /\ fs' = [fs EXCEPT ![sv.output_path] = File(fs[original_rom_path].data)]
            /\ pc' = "load_fat"

\* shutil.copy2(original_rom_path, output_path); SameFileError and any I/O
\* error (io_error: the environment makes the call fail) are caught by the
\* "except Exception" of build_rom
CopyRom ==
    \E io_error \in BOOLEAN :
    /\ pc = "copy"
    /\ UNCHANGED <<lz, narc, crc16, walk, resolve, original_rom_path, header, fat_index_map,
                   fat_index_map_built, mods, sv, calls>>
    /\ IF sv.output_path = original_rom_path \/ io_error
       THEN Return(Failure("unexpected_error")) /\ UNCHANGED fs
       ELSE /\ fs' = [fs EXCEPT ![sv.output_path] = File(fs[original_rom_path].data)]
            /\ pc' = "load_fat"
            /\ UNCHANGED result

\* fat_entries = self._load_fat()
LoadFat ==
    \E io_error \in BOOLEAN :
    /\ pc = "load_fat"
    /\ UNCHANGED <<lz, narc, crc16, walk, resolve, fs, original_rom_path, header, fat_index_map,
                   fat_index_map_built, mods, calls>>
    /\ IF io_error
       THEN Return(Failure("fat_read_failed")) /\ UNCHANGED sv
       ELSE /\ sv' = [sv EXCEPT !.fat_entries = _load_fat(Cache, fs)]
            /\ pc' = "apply_open"
            /\ UNCHANGED result

\* _apply_modifications: open(rom_path, 'r+b'), modified_fat = list(fat_entries),
\* current_rom_end = rom_file.seek(0, 2)
ApplyOpen ==
    \E io_error \in BOOLEAN :
    /\ pc = "apply_open"
    /\ UNCHANGED <<lz, narc, crc16, walk, resolve, fs, original_rom_path, header, fat_index_map,
                   fat_index_map_built, mods, calls>>
    /\ IF io_error
       THEN Return(Failure("apply_failed")) /\ UNCHANGED sv
       ELSE /\ sv' = [sv EXCEPT !.modified_fat = sv.fat_entries,
                                !.current_rom_end = Len(fs[sv.output_path].data),
                                !.i = 0]
            /\ pc' = "apply"
            /\ UNCHANGED result

\* the state the loop of _apply_modifications works on
ApplyState ==
    [data |-> fs[sv.output_path].data, modified_fat |-> sv.modified_fat,
     current_rom_end |-> sv.current_rom_end]

\* one iteration of "for i, mod in enumerate(mods)"; when a seek or write of
\* the iteration raises (io_error), _apply_modifications returns None
ApplyMod ==
    \E io_error \in BOOLEAN :
    /\ pc = "apply"
    /\ sv.i < Len(sv.resolvable)
    /\ UNCHANGED <<lz, narc, crc16, walk, resolve, original_rom_path, header, fat_index_map,
                   fat_index_map_built, mods, calls>>
    /\ IF io_error /\ ApplyCase(ApplyState, sv.resolvable[sv.i + 1]) # "skip"
       THEN Return(Failure("apply_failed")) /\ UNCHANGED <<fs, sv>>
       ELSE /\ \E st \in {ApplyOne(ApplyState, sv.resolvable[sv.i + 1])} :
                  /\ fs' = [fs EXCEPT ![sv.output_path].data = st.data]
                  /\ sv' = [sv EXCEPT !.modified_fat = st.modified_fat,
                                      !.current_rom_end = st.current_rom_end,
                                      !.i = @ + 1]
            /\ pc' = IF sv.i + 1 = Len(sv.resolvable) THEN "write_fat" ELSE "apply"
            /\ UNCHANGED result

\* a table write whose failure is recorded but does not end build_rom
WriteFatContinues ==
    \E io_error \in BOOLEAN :
    /\ pc = "write_fat"
    /\ UNCHANGED <<lz, narc, crc16, walk, resolve, original_rom_path, header, fat_index_map,
                   fat_index_map_built, mods, sv, calls>>
    /\ pc' = "update_header"
    /\ IF io_error
       THEN result' = Failure("fat_write_failed") /\ UNCHANGED fs
       ELSE /\ fs' = [fs EXCEPT ![sv.output_path].data =
                         _write_fat(@, Cache, sv.modified_fat)]
            /\ UNCHANGED result

\* self._write_fat(output_path, modified_fat)
WriteFat ==
    \E io_error \in BOOLEAN :
    /\ pc = "write_fat"
    /\ UNCHANGED <<lz, narc, crc16, walk, resolve, original_rom_path, header, fat_index_map,
                   fat_index_map_built, mods, sv, calls>>
    /\ IF io_error
       THEN Return(Failure("fat_write_failed")) /\ UNCHANGED fs
       ELSE /\ fs' = [fs EXCEPT ![sv.output_path].data =
                         _write_fat(@, Cache, sv.modified_fat)]
            /\ pc' = "update_header"
            /\ UNCHANGED result

\* self._update_header(output_path), then the summary of build_rom.  When the
\* open for writing fails, header.rom_size and header_crc16 are already set.
UpdateHeader ==
    /\ pc = "update_header"
    /\ UNCHANGED <<lz, narc, crc16, walk, resolve, original_rom_path, fat_index_map,
                   fat_index_map_built, mods, sv, calls>>
    /\ \E u \in {_update_header(fs[sv.output_path].data, header)},
          io_error \in BOOLEAN :
           /\ header' = u.header
           /\ IF io_error
              THEN Return(Failure("header_failed")) /\ UNCHANGED fs
              ELSE /\ fs' = [fs EXCEPT ![sv.output_path].data = u.data]
                   /\ Return(Outcome(TRUE, "saved", Len(sv.resolvable),
                                     Names(sv.unresolvable), Len(u.data)))

Next ==
    \/ Initialize
    \/ Register
    \/ Remove
    \/ ClearModifications
    \/ Reset
    \/ SaveRom
    \/ CopyRom
    \/ LoadFat
    \/ ApplyOpen
    \/ ApplyMod
    \/ WriteFat
    \/ UpdateHeader

Spec == Init /\ [][Next]_vars

-----------------------------------------------------------------------------
(* The LZ10 codec on its own: an input is chosen, compressed, and the      *)
(* compressed stream is decompressed.                                      *)

MaxLzLen == 6

LongLen == 40

MaxPeriod == 3

LzBytes == {0, 1}

\* the bytes 0, 1, .., period-1 repeated up to length n
Periodic(period, n) == [i \in 1..n |-> (i - 1) % period]

\* every string over LzBytes up to MaxLzLen, runs and periodic strings long
\* enough for matches of MAX_MATCH bytes, and LongLen distinct literals
LzInputs ==
    UNION {[1..n -> LzBytes] : n \in 0..MaxLzLen}
    \cup {Periodic(p, LongLen) : p \in 1..MaxPeriod}
    \cup {Periodic(LongLen, LongLen)}

\* input lengths around LZ_LEN_LIMIT.  Of such an input only the length n is
\* kept, of its compressed stream only the header, and of the decompressed
\* output only the length "return bytes(out[:dst_size])" cuts it to.
LongLengths == {LZ_LEN_LIMIT - 1, LZ_LEN_LIMIT, LZ_LEN_LIMIT + LongLen}

MaxRawLen == 4

\* bytes of a stream handed to decompress_lz10 as it is: flag bytes with no
\* back-reference (0), with one in the first (128) or second (64) op, a
\* literal (65), and a first back-reference byte of length code 3 (48)
RawBytes == {0, 48, 64, 65, 128}

\* declared lengths of those streams
RawSizes == {0, 2, 5}

\* streams that were not produced by compress_lz10: a tag byte with an
\* incomplete header, a full header followed by up to MaxRawLen arbitrary
\* bytes, and streams that do not start with the tag byte
RawStreams ==
    {<<LZ_TAG>>, <<LZ_TAG, 1>>, <<LZ_TAG, 1, 0>>, <<>>, <<17, 0>>}
    \cup {LzHeader(n) \o body : n \in RawSizes,
                                body \in UNION {[1..k -> RawBytes] : k \in 0..MaxRawLen}}
    \cup {LzHeader(n) \o <<flags, 65>> \o <<b1, b2>> \o <<66, 67>> :
              n \in {3, 5, 9}, flags \in {64, 96}, b1 \in {0, 16, 48}, b2 \in {0, 1, 5}}

InitLZ ==
    /\ lz \in {[pc |-> "input", n |-> Len(b), data |-> b, packed |-> <<>>,
                 result |-> Returned(<<>>), max_out |-> 0] : b \in LzInputs}
           \cup {[pc |-> "long_input", n |-> n, data |-> <<>>, packed |-> <<>>,
                  result |-> Returned(<<>>), max_out |-> 0] : n \in LongLengths}
           \cup {[pc |-> "raw_input", n |-> 0, data |-> <<>>, packed |-> b,
                  result |-> Returned(<<>>), max_out |-> 0] : b \in RawStreams}
    /\ narc = [pc |-> "off"]
    /\ crc16 = [pc |-> "off"]
    /\ walk = [pc |-> "off"]
    /\ resolve = [pc |-> "off"]
    /\ SessionInit

\* packed = compress_lz10(data)
Compress ==
    /\ lz.pc = "input"
    /\ lz' = [lz EXCEPT !.pc = "packed", !.packed = compress_lz10(lz.data)]
    /\ UNCHANGED <<narc, crc16, walk, resolve, fs, original_rom_path, header, fat_index_map,
                   fat_index_map_built, mods, pc, sv, result, calls>>

\* result = decompress_lz10(packed)
Decompress ==
    /\ lz.pc = "packed"
    /\ lz' = [lz EXCEPT !.pc = "decoded", !.result = decompress_lz10(lz.packed)]
    /\ UNCHANGED <<narc, crc16, walk, resolve, fs, original_rom_path, header, fat_index_map,
                   fat_index_map_built, mods, pc, sv, result, calls>>

\* the header compress_lz10 writes for an input of lz.n bytes
CompressLong ==
    /\ lz.pc = "long_input"
    /\ lz' = [lz EXCEPT !.pc = "long_packed", !.packed = LzHeader(lz.n)]
    /\ UNCHANGED <<narc, crc16, walk, resolve, fs, original_rom_path, header, fat_index_map,
                   fat_index_map_built, mods, pc, sv, result, calls>>

\* decompress_lz10 reads dst_size and returns at most dst_size bytes
DecompressLong ==
    /\ lz.pc = "long_packed"
    /\ lz' = [lz EXCEPT !.pc = "long_decoded", !.max_out = DeclaredSize(lz.packed)]
    /\ UNCHANGED <<narc, crc16, walk, resolve, fs, original_rom_path, header, fat_index_map,
                   fat_index_map_built, mods, pc, sv, result, calls>>

\* result = decompress_lz10(stream) for a stream taken as it is
DecompressRaw ==
    /\ lz.pc = "raw_input"
    /\ lz' = [lz EXCEPT !.pc = "raw_decoded", !.result = decompress_lz10(lz.packed)]
    /\ UNCHANGED <<narc, crc16, walk, resolve, fs, original_rom_path, header, fat_index_map,
                   fat_index_map_built, mods, pc, sv, result, calls>>

NextLZ == Compress \/ Decompress \/ CompressLong \/ DecompressLong \/ DecompressRaw

SpecLZ == InitLZ /\ [][NextLZ]_vars

-----------------------------------------------------------------------------
(* The NARC codec on its own: a list of blobs is built into an archive and *)
(* the archive is parsed.                                                  *)

MaxBlobLen == 4

MaxFiles == 2

NarcBytes == {0, 9}

NarcBlobs == UNION {[1..n -> NarcBytes] : n \in 0..MaxBlobLen}

NarcInputs == UNION {[1..k -> NarcBlobs] : k \in 0..MaxFiles}

\* a well-formed archive of one 4-byte file: header [0,16), BTAF [16,36) with
\* its size at 20, the count at 24 and the entry (start, end) at 28 and 32,
\* BTNF [36,52) with its size at 40, GMIF [52,64)
NarcSample == build_narc(<< <<9, 9, 9, 9>> >>)

MagicOffsets == {0, 16, 36, 52}

FieldOffsets == {20, 24, 28, 32, 40}

FieldValues == {0, 2, 12, 64, 1000}

\* blobs that build_narc did not produce: every proper prefix of the sample,
\* the sample with one magic damaged, and the sample with one size, count
\* or offset field replaced
RawBlobs ==
    {SubSeq(NarcSample, 1, k) : k \in 0..(Len(NarcSample) - 1)}
    \cup {[NarcSample EXCEPT ![o + 1] = 0] : o \in MagicOffsets}
    \cup {WriteAt(NarcSample, o, PackU32(v)) : o \in FieldOffsets, v \in FieldValues}

InitNarc ==
    /\ narc \in {[pc |-> "input", files |-> L, blob |-> <<>>, result |-> Returned(<<>>)] :
                    L \in NarcInputs}
               \cup {[pc |-> "raw_input", files |-> <<>>, blob |-> b,
                      result |-> Returned(<<>>)] : b \in RawBlobs}
    /\ lz = [pc |-> "off"]
    /\ crc16 = [pc |-> "off"]
    /\ walk = [pc |-> "off"]
    /\ resolve = [pc |-> "off"]
    /\ SessionInit

\* blob = build_narc(files)
BuildNarc ==
    /\ narc.pc = "input"
    /\ narc' = [narc EXCEPT !.pc = "built", !.blob = build_narc(narc.files)]
    /\ UNCHANGED <<lz, crc16, walk, resolve, fs, original_rom_path, header, fat_index_map,
                   fat_index_map_built, mods, pc, sv, result, calls>>

\* result = parse_narc(blob)
ParseNarc ==
    /\ narc.pc = "built"
    /\ narc' = [narc EXCEPT !.pc = "parsed", !.result = parse_narc(narc.blob)]
    /\ UNCHANGED <<lz, crc16, walk, resolve, fs, original_rom_path, header, fat_index_map,
                   fat_index_map_built, mods, pc, sv, result, calls>>

\* result = parse_narc(blob) for a blob taken as it is
ParseRaw ==
    /\ narc.pc = "raw_input"
    /\ narc' = [narc EXCEPT !.pc = "raw_parsed", !.result = parse_narc(narc.blob)]
    /\ UNCHANGED <<lz, crc16, walk, resolve, fs, original_rom_path, header, fat_index_map,
                   fat_index_map_built, mods, pc, sv, result, calls>>

NextNarc == BuildNarc \/ ParseNarc \/ ParseRaw

SpecNarc == InitNarc /\ [][NextNarc]_vars

-----------------------------------------------------------------------------
(* calculate_crc16 applied to byte strings                                  *)

MaxCrcLen == 3

\* bytes of the short inputs: no bit, the lowest bit, the highest bit, all bits
CrcBytes == {0, 1, 128, 255}

\* the empty string, every single byte (each entry of CRC16_TABLE is used
\* from the initial value), short strings, and the first 350 bytes of the
\* headers of the ROM images: the range update_crc hands to calculate_crc16
CrcInputs ==
    {<<b>> : b \in 0..255}
    \cup UNION {[1..k -> CrcBytes] : k \in 0..MaxCrcLen}
    \cup {Slice(rom, 0, OFF_HEADER_CRC) : rom \in {RomImageA, RomImageB, RomImageC, RomImageD}}

InitCrc ==
    /\ crc16 \in {[pc |-> "input", data |-> d, value |-> 0] : d \in CrcInputs}
    /\ lz = [pc |-> "off"]
    /\ narc = [pc |-> "off"]
    /\ walk = [pc |-> "off"]
    /\ resolve = [pc |-> "off"]
    /\ SessionInit

\* value = calculate_crc16(data)
CalculateCrc ==
    /\ crc16.pc = "input"
    /\ crc16' = [crc16 EXCEPT !.pc = "computed", !.value = calculate_crc16(crc16.data)]
    /\ UNCHANGED <<lz, narc, walk, resolve, fs, original_rom_path, header, fat_index_map,
                   fat_index_map_built, mods, pc, sv, result, calls>>

NextCrc == CalculateCrc

SpecCrc == InitCrc /\ [][NextCrc]_vars

-----------------------------------------------------------------------------
(* resolve_fat_index applied to a directory index, a ROM path and a path   *)

\* "/a_extractedb/x": next to the extraction root of "/a.n", not under it
PathBesideRoot == SubSeq(PathX, 1, 12) \o << "b", "/", "x" >>

\* "/A_extracted/X" and "/a_extracted/q/y"
PathUpper == << "/", "A" >> \o SubSeq(PathX, 3, 13) \o << "X" >>

PathDeep == SubSeq(PathX, 1, 13) \o << "q", "/", "y" >>

\* resolved absolute paths handed to resolve_fat_index
ResolvePaths ==
    {PathX, PathY, PathBesideRoot, PathUpper, PathDeep,
     SubSeq(PathX, 1, 12), << "/", "z" >>}

\* directory indexes: empty, names of the root directory, a nested name, a
\* nested name that is no suffix of PathBesideRoot, a key with a leading slash
ResolveMaps ==
    { <<>>,
      (<<"x">> :> 0) @@ (<<"y">> :> 1),
      (<<"q", "/", "y">> :> 2) @@ (<<"y">> :> 1),
      (<<"b", "/", "x">> :> 3) @@ (<<"x">> :> 0),
      (<<"b", "/", "x">> :> 3),
      (<<"/", "q", "/", "y">> :> 5) @@ (<<"x">> :> 4) }

\* the session's ROM path: none, "/a.n", "/q/a.n"
ResolveRoms == {NoPath, RomPathA, << "/", "q" >> \o RomPathA}

InitResolve ==
    /\ resolve \in {[pc |-> "input", map |-> m, rom_path |-> r, file_path |-> p,
                     value |-> 0] : m \in ResolveMaps, r \in ResolveRoms, p \in ResolvePaths}
    /\ lz = [pc |-> "off"]
    /\ narc = [pc |-> "off"]
    /\ crc16 = [pc |-> "off"]
    /\ walk = [pc |-> "off"]
    /\ SessionInit

\* value = cache.resolve_fat_index(file_path)
ResolveFatIndex ==
    /\ resolve.pc = "input"
    /\ resolve' = [resolve EXCEPT !.pc = "resolved",
                      !.value = resolve_fat_index(resolve.map, resolve.rom_path,
                                                  resolve.file_path)]
    /\ UNCHANGED <<lz, narc, crc16, walk, fs, original_rom_path, header, fat_index_map,
                   fat_index_map_built, mods, pc, sv, result, calls>>

NextResolve == ResolveFatIndex

SpecResolve == InitResolve /\ [][NextResolve]_vars

-----------------------------------------------------------------------------
(* FNTParser.parse applied to directory tables                             *)

\* entries of a list: files "x", "w", "z", "v", and subdirectory "d" with
\* the id of directory 1
FileEntry(letter) == <<1, letter>>

SubdirEntry(letter, dir_id) == <<129, letter>> \o PackU16(dir_id)

\* a table of two directories: the root, whose files x and w are numbered
\* from root_first and whose entry for d stands before, between or after
\* them, and d, whose files are numbered from sub_first
FntTable(root_first, sub_first, sub_at, sub_files) ==
    LET x == FileEntry(120)
        w == FileEntry(119)
        d == SubdirEntry(100, ROOT_DIR_ID + 1)
        root_list == (IF sub_at = 0 THEN d \o x \o w
                      ELSE IF sub_at = 1 THEN x \o d \o w
                      ELSE x \o w \o d) \o <<0>>
        sub_list == (IF sub_files = 0 THEN <<>>
                     ELSE IF sub_files = 1 THEN FileEntry(122)
                     ELSE FileEntry(122) \o FileEntry(118)) \o <<0>>
    IN  PackU32(16) \o PackU16(root_first) \o PackU16(2)
        \o PackU32(16 + Len(root_list)) \o PackU16(sub_first) \o PackU16(ROOT_DIR_ID)
        \o root_list \o sub_list

\* first file ids of the two directories
FirstIds == {0, 2, 5}

TableShapes ==
    [root_first : FirstIds, sub_first : FirstIds, sub_at : 0..2, sub_files : 0..2]

NoShape == [root_first |-> 0, sub_first |-> 0, sub_at |-> 0, sub_files |-> 0]

FntSample == FntTable(0, 2, 0, 2)

\* a root directory with the given entry list behind its 8-byte record
OneDirectory(list) == PackU32(8) \o PackU16(0) \o PackU16(1) \o list

\* tables no ROM tool writes: [rom, fnt_offset, fnt_size]
\*   a subdirectory entry that refers to its own directory, once and twice,
\*   or to the parent of its directory;
\*   a list without the terminating zero, inside and beyond fnt_size;
\*   a name length, a list offset, a subdirectory id and a table offset that
\*   point past the end; every proper prefix of the sample; the sample with
\*   one byte of a record or of an entry replaced
DamagedOffsets == {0, 4, 8, 16, 18, 19, 20}

DamagedValues == {0, 1, 29, 129, 255}

DamagedTables ==
    { <<OneDirectory(FileEntry(120) \o SubdirEntry(100, ROOT_DIR_ID) \o FileEntry(119) \o <<0>>), 0, 19>>,
      <<OneDirectory(SubdirEntry(100, ROOT_DIR_ID) \o SubdirEntry(101, ROOT_DIR_ID)
                     \o FileEntry(119) \o <<0>>), 0, 19>>,
      <<PackU32(16) \o PackU16(0) \o PackU16(2) \o PackU32(23) \o PackU16(1) \o PackU16(ROOT_DIR_ID)
        \o FileEntry(120) \o SubdirEntry(100, ROOT_DIR_ID + 1) \o <<0>>
        \o FileEntry(122) \o SubdirEntry(101, ROOT_DIR_ID) \o <<0>>, 0, 30>>,
      <<OneDirectory(FileEntry(120) \o FileEntry(119)), 0, 12>>,
      <<OneDirectory(FileEntry(120) \o FileEntry(119)), 0, 1000>>,
      <<OneDirectory(<<5, 120>>), 0, 100>>,
      <<PackU32(8000) \o PackU16(0) \o PackU16(1) \o FileEntry(120) \o <<0>>, 0, 100>>,
      <<OneDirectory(<<129, 100, 1>>), 0, 100>>,
      <<OneDirectory(SubdirEntry(100, ROOT_DIR_ID + 4095) \o FileEntry(119) \o <<0>>), 0, 100>>,
      << <<>>, 0, 0>>,
      << <<0, 0, 0>>, 5, 8>>,
      << <<7>> \o FntSample, 1, 30>> }
    \cup {<<SubSeq(FntSample, 1, k), 0, 30>> : k \in 0..(Len(FntSample) - 1)}
    \cup {<<[FntSample EXCEPT ![o + 1] = v], 0, 30>> : o \in DamagedOffsets, v \in DamagedValues}

InitWalk ==
    /\ walk \in {[pc |-> "input", rom |-> FntTable(s.root_first, s.sub_first, s.sub_at,
                                                   s.sub_files),
                  fnt_offset |-> 0, fnt_size |-> 30, shape |-> s, made |-> TRUE,
                  result |-> NoWalk, index |-> <<>>] : s \in TableShapes}
             \cup {[pc |-> "input", rom |-> t[1], fnt_offset |-> t[2], fnt_size |-> t[3],
                    shape |-> NoShape, made |-> FALSE,
                    result |-> NoWalk, index |-> <<>>] : t \in DamagedTables}
    /\ lz = [pc |-> "off"]
    /\ narc = [pc |-> "off"]
    /\ crc16 = [pc |-> "off"]
    /\ resolve = [pc |-> "off"]
    /\ SessionInit

\* a parse without the "except Exception": the error of the walk leaves the
\* call and no index is returned
ParseUncaught ==
    /\ walk.pc = "input"
    /\ walk' = IF RootWalk(walk.rom, walk.fnt_offset, walk.fnt_size).raised
               THEN [walk EXCEPT !.pc = "raised"]
               ELSE [walk EXCEPT !.pc = "parsed",
                        !.result = RootWalk(walk.rom, walk.fnt_offset, walk.fnt_size),
                        !.index = FNTParser_parse(walk.rom, walk.fnt_offset, walk.fnt_size)]
    /\ UNCHANGED <<lz, narc, crc16, resolve, fs, original_rom_path, header, fat_index_map,
                   fat_index_map_built, mods, pc, sv, result, calls>>

\* index = FNTParser().parse(rom, fnt_offset, fnt_size); result is the walk
\* behind it
Parse ==
    /\ walk.pc = "input"
    /\ walk' = [walk EXCEPT !.pc = "parsed",
                   !.result = RootWalk(walk.rom, walk.fnt_offset, walk.fnt_size),
                   !.index = FNTParser_parse(walk.rom, walk.fnt_offset, walk.fnt_size)]
    /\ UNCHANGED <<lz, narc, crc16, resolve, fs, original_rom_path, header, fat_index_map,
                   fat_index_map_built, mods, pc, sv, result, calls>>

NextWalk == Parse

SpecWalk == InitWalk /\ [][NextWalk]_vars

\* parse is a straight-line call: once called it runs to its return
SpecWalkFair == SpecWalk /\ WF_vars(Parse)

-----------------------------------------------------------------------------
(* The tracker in a session that has loaded ROM "/a.n": more registrations  *)
(* than the session model above allows, under several spellings of a path,  *)
(* removals, clears and saves.                                              *)

MaxRegTracker == 3

MaxOtherTracker == 2

\* another spelling of PathY
PathYDots == << "/", "q", "/", ".", ".", "/", "q", "/", "y" >>

TrackerPaths == ModPaths \cup {PathYDots}

\* the session after ROMSaver() and initialize("/a.n")
InitTracker ==
    /\ CodecsIdle
    /\ fs = InitialFs
    /\ \E c \in {initialize(NewCache, InitialFs, RomPathA).cache} :
          /\ original_rom_path = c.original_rom_path
          /\ header = c.header
          /\ fat_index_map = c.fat_index_map
          /\ fat_index_map_built = c.fat_index_map_built
    /\ mods = <<>>
    /\ pc = "idle"
    /\ sv = NoSave
    /\ result = NoResult
    /\ calls = [init |-> 1, reg |-> 0, save |-> 0, other |-> 0]

TrackerTypes == {"direct", "layer_swap"}

RegisterTracker ==
    \E path \in TrackerPaths, data \in Payloads \cup {EmptyPayload}, t \in TrackerTypes :
        calls.reg < MaxRegTracker /\ RegisterCall(path, data, t)

RemoveTracker ==
    \E path \in TrackerPaths : calls.other < MaxOtherTracker /\ RemoveCall(path)

ClearTracker == calls.other < MaxOtherTracker /\ ClearCall

NextTracker ==
    \/ RegisterTracker
    \/ RemoveTracker
    \/ ClearTracker
    \/ SaveRom
    \/ CopyRom
    \/ LoadFat
    \/ ApplyOpen
    \/ ApplyMod
    \/ WriteFat
    \/ UpdateHeader

SpecTracker == InitTracker /\ [][NextTracker]_vars

-----------------------------------------------------------------------------
(* Properties of the codecs                                                *)

\* C1 as stated: for every byte string b, the empty one included,
\* decompress_lz10(compress_lz10(b)) returns b.  For an input kept by its
\* length only, the output can equal the input only if decompress_lz10 is
\* left at least n bytes of it.
LzRoundTripAnyLength ==
    /\ lz.pc = "decoded" => lz.result = Returned(lz.data)
    /\ lz.pc = "long_decoded" => lz.max_out >= lz.n

\* C1, amended: for every byte string b shorter than 2^24 bytes, the empty
\* one included, decompress_lz10(compress_lz10(b)) returns b; the header
\* declares exactly the length of such an input
LzRoundTrip ==
    /\ lz.pc = "decoded" /\ lz.n < LZ_LEN_LIMIT => lz.result = Returned(lz.data)
    /\ lz.pc = "long_decoded" /\ lz.n < LZ_LEN_LIMIT => lz.max_out = lz.n

\* a long input whose compressed stream uses back-references has been
\* compressed and decompressed
LzRoundTripWitness ==
    /\ lz.pc = "decoded"
    /\ Len(lz.data) >= LongLen
    /\ Len(lz.packed) < Len(lz.data)
    /\ lz.result = Returned(lz.data)

\* C14: decompress_lz10 returns a byte string, without a fault, for every
\* input: streams with an incomplete header, streams cut inside an op group
\* and streams with out-of-range back-references included
DecompressNeverFaults ==
    lz.pc \in {"decoded", "raw_decoded"} => ~lz.result.fault

\* C15: for every input that starts with the tag byte followed by a 24-bit
\* length N, decompress_lz10 returns exactly N bytes
DeclaredLengthKept ==
    lz.pc = "raw_decoded" /\ Len(lz.packed) >= 4 /\ lz.packed[1] = LZ_TAG
    => ~lz.result.fault /\ Len(lz.result.out) = DeclaredSize(lz.packed)

\* C2: for every list L of blobs, parse_narc(build_narc(L)) returns L, byte
\* for byte and entry for entry
NarcRoundTrip == narc.pc = "parsed" => narc.result = Returned(narc.files)

\* the errors parse_narc raises on purpose
MalformedArchive ==
    {"ValueError: Not a NARC file", "ValueError: NARC missing BTAF",
     "ValueError: NARC missing BTNF", "ValueError: NARC missing GMIF"}

HasMagic(blob, off, magic) == Slice(blob, off, off + 4) = magic

\* an entry (start, end) relative to the data pool at base reaches past the
\* end of the blob
EntryPastEnd(blob, base, count) ==
    \E i \in 0..(count - 1) :
        base + u32(blob, 28 + i * 8 + 4) > Len(blob)

\* the blob lacks a magic at its expected position, or a section size, the
\* entry count or an entry range points past the end of the blob
Malformed(blob) ==
    \/ ~HasMagic(blob, 0, MAGIC_NARC)
    \/ ~HasMagic(blob, 16, MAGIC_BTAF)
    \/ ~CanRead32(blob, 24)
    \/ 16 + u32(blob, 20) > Len(blob)
    \/ 28 + u32(blob, 24) * 8 > Len(blob)
    \/ ~HasMagic(blob, 16 + u32(blob, 20), MAGIC_BTNF)
    \/ ~CanRead32(blob, 16 + u32(blob, 20) + 4)
    \/ 16 + u32(blob, 20) + u32(blob, 16 + u32(blob, 20) + 4) > Len(blob)
    \/ ~HasMagic(blob, 16 + u32(blob, 20) + u32(blob, 16 + u32(blob, 20) + 4),
                 MAGIC_GMIF)
    \/ EntryPastEnd(blob, 16 + u32(blob, 20) + u32(blob, 16 + u32(blob, 20) + 4) + 8,
                    u32(blob, 24))

\* C17: parse_narc fails with the MalformedArchive error, with no other
\* fault and no shortened result, whenever the blob lacks the NARC, BTAF,
\* BTNF or GMIF magic at its expected position or a section size, the entry
\* count or an entry range points past the end of the blob
MalformedRejected ==
    narc.pc = "raw_parsed" /\ Malformed(narc.blob)
    => narc.result.fault /\ narc.result.out \in MalformedArchive

-----------------------------------------------------------------------------
(* Properties of the tracker                                               *)

\* the (bytes, kind) pairs the tracker holds under a canonical path
RecordsOf(ms, path) ==
    {<<ms[k].new_data, ms[k].mod_type>> :
        k \in {j \in 1..Len(ms) : ms[j].file_path = path}}

CanonicalPaths == {PathResolve(p) : p \in TrackerPaths}

\* no two records share a key, and every key is a canonical path
OneRecordPerPath(ms) ==
    /\ \A j, k \in 1..Len(ms) : ms[j].file_path = ms[k].file_path => j = k
    /\ \A k \in 1..Len(ms) : ms[k].file_path \in CanonicalPaths

OthersKept(path) ==
    \A q \in CanonicalPaths \ {PathResolve(path)} :
        RecordsOf(mods', q) = RecordsOf(mods, q)

RegisterEffect(path, data, t) ==
    IF data = EmptyPayload
    THEN ~register(mods, path, data, t).ok /\ mods' = mods
    ELSE /\ register(mods, path, data, t).ok
         /\ RecordsOf(mods', PathResolve(path)) = {<<data, t>>}
         /\ OthersKept(path)

RemoveEffect(path) ==
    /\ RecordsOf(mods', PathResolve(path)) = {}
    /\ OthersKept(path)

\* C16: the tracker is the map canonical path -> (bytes, kind) of the most
\* recent register call with a non-empty payload for each path not removed
\* or cleared since: a register call with a non-empty payload sets the entry
\* of its path and returns True, one with an empty payload returns False and
\* changes no record, remove deletes the entry of its path, clear empties
\* the map, each leaving the other entries alone, and the tracker never
\* holds two records for one canonical path
TrackerIsMap ==
    [][/\ calls'.reg # calls.reg =>
             \A path \in TrackerPaths, data \in Payloads \cup {EmptyPayload},
                t \in TrackerTypes :
                RegisterCall(path, data, t) => RegisterEffect(path, data, t)
       /\ calls'.other # calls.other =>
             /\ \A path \in TrackerPaths : RemoveCall(path) => RemoveEffect(path)
             /\ ClearCall => mods' = <<>>
       /\ mods' # mods => OneRecordPerPath(mods')]_vars

\* after three registrations, one of them under another spelling of a
\* registered path, and a removal, the tracker holds one record: the last
\* payload and kind registered for "/q/y"
TrackerIsMapWitness ==
    /\ calls.reg = 3 /\ calls.other = 1 /\ calls.save = 0
    /\ Len(mods) = 1
    /\ mods[1].file_path = PathY
    /\ mods[1].mod_type = "layer_swap"
    /\ mods[1].new_data = <<221, 222, 223, 224, 225>>

-----------------------------------------------------------------------------
(* Properties of save                                                      *)

\* the output image and the original image of the running or finished save
Output == fs[sv.output_path].data

Original == fs[original_rom_path].data

Saved == pc = "done" /\ result.ok

\* C3: save never mutates the original ROM file: no step of a session, the
\* steps of save_rom included, changes the bytes of the file the session's
\* ROM path names, whether the save succeeds or fails and also when
\* output_path is that same file
OriginalNeverMutated ==
    [][original_rom_path # NoPath
         => fs'[original_rom_path] = fs[original_rom_path]]_vars

\* a save whose output_path is the original ROM has run and failed, and
\* the ROM holds the bytes it had at the start
OriginalNeverMutatedWitness ==
    /\ pc = "done" /\ ~result.ok
    /\ sv.output_path = original_rom_path
    /\ result.kind = "unexpected_error"
    /\ fs[original_rom_path] = InitialFs[original_rom_path]

\* the directory index save_rom resolves against: built lazily when the
\* session has none
IndexAtSave ==
    IF fat_index_map_built THEN fat_index_map
    ELSE build_file_index(Cache, fs, original_rom_path).cache.fat_index_map

\* what a lookup of the record's path in that index returns
Lookup(m) == resolve_fat_index(IndexAtSave, original_rom_path, m.file_path)

SaveRomCalled == Idle /\ calls'.save = calls.save + 1

\* C4: when no registered modification resolves to an entry of the
\* directory index, or none is registered, save_rom returns (False, message)
\* without creating or modifying the output file
NothingToSave ==
    [][SaveRomCalled /\ (\A k \in 1..Len(mods) : Lookup(mods[k]) = -1)
         => pc' = "done" /\ ~result'.ok /\ fs' = fs]_vars

\* one iteration of the loop of _apply_modifications is taken: the record
\* it handles, the entry it finds, and the output before and after
ApplyStep == pc = "apply" /\ sv'.i = sv.i + 1

StepMod == sv.resolvable[sv.i + 1]

StepInRange == StepMod.fat_index >= 0 /\ StepMod.fat_index < Len(sv.modified_fat)

StepOld == sv.modified_fat[StepMod.fat_index + 1]

StepNew == sv'.modified_fat[StepMod.fat_index + 1]

StepSize == Len(StepMod.new_data)

OutputAfter == fs'[sv.output_path].data

InPlaceStep ==
    ApplyStep /\ StepInRange /\ StepSize <= StepOld.end_addr - StepOld.start_addr

InPlaceEffect ==
    /\ Slice(OutputAfter, StepOld.start_addr, StepOld.start_addr + StepSize)
           = StepMod.new_data
    /\ StepNew = [start_addr |-> StepOld.start_addr,
                  end_addr |-> StepOld.start_addr + StepSize]
    /\ Len(OutputAfter) = Len(Output)
    /\ Slice(OutputAfter, StepOld.start_addr + StepSize, StepOld.end_addr)
           = Slice(Output, StepOld.start_addr + StepSize, StepOld.end_addr)

\* C5 as stated: for a resolved modification with new_size <= old size, the
\* replacement bytes are written at old start, the entry becomes
\* (start, start + new_size), the file length does not change and the bytes
\* of [start + new_size, old_end) keep their values
InPlaceCaseAnyEntry == [][InPlaceStep => InPlaceEffect]_vars

\* C5, amended: the same, for an old entry that ends inside the file
InPlaceCase ==
    [][InPlaceStep /\ StepOld.end_addr <= Len(Output) => InPlaceEffect]_vars

\* a save has shrunk, in place, an entry that lies inside the original
\* file, and the output is as long as the original
InPlaceCaseWitness ==
    /\ pc = "write_fat"
    /\ Len(Output) = Len(Original)
    /\ \E k \in 1..Len(sv.modified_fat) :
          /\ sv.fat_entries[k].end_addr <= Len(Original)
          /\ sv.modified_fat[k].start_addr = sv.fat_entries[k].start_addr
          /\ sv.modified_fat[k].end_addr < sv.fat_entries[k].end_addr
          /\ sv.modified_fat[k].end_addr > sv.modified_fat[k].start_addr

GrowthStep ==
    ApplyStep /\ StepInRange /\ StepSize > StepOld.end_addr - StepOld.start_addr

GrowthEffect ==
    /\ StepNew.start_addr % 4 = 0
    /\ StepNew.start_addr >= sv.current_rom_end
    /\ StepNew.start_addr < sv.current_rom_end + 4
    /\ StepNew.end_addr = StepNew.start_addr + StepSize
    /\ Slice(OutputAfter, sv.current_rom_end, StepNew.start_addr)
           = Repeat(255, StepNew.start_addr - sv.current_rom_end)
    /\ Slice(OutputAfter, StepNew.start_addr, StepNew.end_addr) = StepMod.new_data
    /\ sv'.current_rom_end = StepNew.end_addr
    /\ Slice(OutputAfter, StepOld.start_addr, StepOld.end_addr)
           = Slice(Output, StepOld.start_addr, StepOld.end_addr)

\* C6 as stated: for a resolved modification with new_size > old size, the
\* entry becomes (A, A + new_size) with A the smallest multiple of 4 at or
\* after the end-of-file cursor, the gap [cursor, A) holds 0xFF, the output
\* holds the replacement bytes at [A, A + new_size), the cursor becomes
\* A + new_size and the bytes of the old range are untouched
GrowthCaseAnyEntry == [][GrowthStep => GrowthEffect]_vars

\* C6, amended: the same, for an old entry that ends at or before the cursor
GrowthCase ==
    [][GrowthStep /\ StepOld.end_addr <= sv.current_rom_end => GrowthEffect]_vars

\* a save has relocated an entry that lay inside the original file to an
\* aligned offset past a gap, and a second entry after it
GrowthCaseWitness ==
    /\ pc = "write_fat"
    /\ \E k, j \in 1..Len(sv.modified_fat) :
          /\ sv.fat_entries[k].end_addr <= Len(Original)
          /\ sv.modified_fat[k].start_addr > Len(Original)
          /\ sv.modified_fat[k].start_addr % 4 = 0
          /\ sv.modified_fat[j].start_addr > sv.modified_fat[k].end_addr

\* the allocation table as the header of the session locates it in an image
TableIn(data) ==
    FatFromBytes(Slice(data, header.fat_addr, header.fat_addr + header.fat_size), 0)

\* C7: the allocation table keeps its cardinality and its place: while save
\* patches it, and in the output of a successful save read back at the
\* original allocation-table address, it has as many entries as the table
\* of the original ROM, and the output holds the patched table there
TableCardinality ==
    /\ pc \in {"apply", "write_fat", "update_header"}
          => Len(sv.modified_fat) = Len(TableIn(Original))
    /\ Saved => /\ Len(TableIn(Output)) = Len(TableIn(Original))
                /\ TableIn(Output) = sv.modified_fat

\* a save that relocated an entry has succeeded
TableCardinalityWitness ==
    /\ Saved
    /\ TableIn(Output) # TableIn(Original)
    /\ Len(TableIn(Output)) = Len(TableIn(Original))
    /\ \E k \in 1..Len(sv.modified_fat) :
          sv.modified_fat[k].start_addr >= Len(Original)

\* C8: after every successful save the rom_size field (u32le at offset 128)
\* of the output equals the length of the output
RomSizeField == Saved => u32(Output, OFF_ROM_SIZE) = Len(Output)

\* C9: after every successful save the header_crc16 field (u16le at offset
\* 350) of the output equals calculate_crc16 of bytes [0, 350) of the output
HeaderChecksum ==
    Saved => u16(Output, OFF_HEADER_CRC)
                 = calculate_crc16(Slice(Output, 0, OFF_HEADER_CRC))

\* a save that made the output longer than the original has succeeded, and
\* the checksum field holds the checksum of the output's header bytes
HeaderChecksumWitness ==
    /\ Saved
    /\ Len(Output) > Len(Original)
    /\ u32(Output, OFF_ROM_SIZE) # u32(Original, OFF_ROM_SIZE)
    /\ u16(Output, OFF_HEADER_CRC) = calculate_crc16(Slice(Output, 0, OFF_HEADER_CRC))

\* results of build_rom that report a failed I/O call
IoFailures ==
    {"unexpected_error", "fat_read_failed", "apply_failed", "fat_write_failed",
     "header_failed"}

\* the paths of the tracker that are, or are not, keys of the directory index
InIndex(m) == resolve_fat_index(fat_index_map, original_rom_path, m.file_path) >= 0

Listed(name, names) == \E k \in 1..Len(names) : names[k] = name

\* C10: when one registered modification is resolvable and another has a
\* path absent from the directory index, a save that meets no I/O failure
\* returns success and its message names every modification whose path is
\* absent from the index
UnresolvedReported ==
    /\ pc = "done" /\ is_initialized(Cache) /\ result.kind \notin IoFailures
    /\ \E k \in 1..Len(mods) : InIndex(mods[k])
    /\ \E k \in 1..Len(mods) : ~InIndex(mods[k])
    => /\ result.ok
       /\ \A k \in 1..Len(mods) :
             ~InIndex(mods[k]) => Listed(PathName(mods[k].file_path), result.unresolved)

\* the allocation indices the records handed to _apply_modifications carry
AppliedIndices == {sv.resolvable[j].fat_index : j \in 1..Len(sv.resolvable)}

\* C11: frame of save on the allocation table: every allocation entry whose
\* index is not the resolved index of a modification handed to the patch
\* loop has the same start and end in the patched table, and in the table of
\* the output of a successful save, as in the table of the original ROM,
\* whatever unresolved or out-of-range modifications are registered
TableFrame ==
    /\ pc \in {"write_fat", "update_header"} =>
          \A k \in 1..Len(sv.fat_entries) :
              (k - 1) \notin AppliedIndices => sv.modified_fat[k] = sv.fat_entries[k]
    /\ Saved =>
          \A k \in 1..Len(TableIn(Original)) :
              (k - 1) \notin AppliedIndices =>
                  /\ k <= Len(TableIn(Output))
                  /\ TableIn(Output)[k] = TableIn(Original)[k]

\* a save has succeeded that patched one entry, left another entry alone
\* and skipped a record whose index lies outside the table
TableFrameWitness ==
    /\ Saved
    /\ \E j \in 1..Len(sv.resolvable) :
          sv.resolvable[j].fat_index >= Len(TableIn(Original))
    /\ \E k \in 1..Len(TableIn(Original)) :
          (k - 1) \in AppliedIndices /\ TableIn(Output)[k] # TableIn(Original)[k]
    /\ \E k \in 1..Len(TableIn(Original)) :
          (k - 1) \notin AppliedIndices /\ TableIn(Output)[k] = TableIn(Original)[k]

\* the positions of a running save_rom call, and the messages it returns
SaveSteps == {"copy", "load_fat", "apply_open", "apply", "write_fat", "update_header"}

FailureMessages ==
    {"not_initialized", "no_modifications", "rom_not_found", "none_resolvable"}
    \cup IoFailures

\* the records save_rom would count as resolvable if called now
ResolvableAtSave ==
    Resolvable([k \in 1..Len(mods) |->
                   IF Resolved(mods[k]) THEN mods[k]
                   ELSE [mods[k] EXCEPT !.fat_index = Lookup(mods[k])]])

\* save_rom is called in a state it must refuse: no ROM path or no header in
\* the session, the ROM file missing, no record, or no resolvable record
RefusedAtCall ==
    /\ SaveRomCalled
    /\ \/ original_rom_path = NoPath
       \/ ~header.loaded
       \/ ~fs[original_rom_path].exists
       \/ mods = <<>>
       \/ ResolvableAtSave = <<>>

\* a step of a running save ends the call
StepEndsCall == pc \in SaveSteps /\ pc' = "done"

\* the header of the ROM file the session names cannot be parsed
HeaderUnparseable == Len(Original) < HEADER_SIZE

\* C12: save_rom never propagates a fault: called for a missing source ROM,
\* for a ROM whose header was not loaded (none in the session, or the file
\* too short to hold one), or with no modification whose path is a key of
\* the directory index, it returns (False, message); and a call that ends in
\* the copy, table-read, data-patch or table-write step, or in the header
\* step without success, returns (False, message)
FailuresReported ==
    /\ [](pc \in {"idle", "done"} \cup SaveSteps)
    /\ [][/\ SaveRomCalled
           /\ \/ original_rom_path = NoPath
              \/ ~header.loaded
              \/ ~fs[original_rom_path].exists
              \/ HeaderUnparseable
              \/ \A k \in 1..Len(mods) : Lookup(mods[k]) = -1
           => pc' = "done" /\ ~result'.ok /\ result'.kind \in FailureMessages]_vars
    /\ [][StepEndsCall /\ ~(pc = "update_header" /\ result'.ok) =>
             ~result'.ok /\ result'.kind \in IoFailures]_vars

\* The part of C12 that holds whatever the session went through: a call is
\* always either inside one of its steps or has returned a pair
\* (ok, message); called while the session holds no ROM path or no header,
\* while the source ROM is missing, or while no record counts as resolvable,
\* it returns (False, message) at once; and an I/O failure in any step ends
\* the call with (False, message)
NeverPropagates ==
    /\ [](pc \in {"idle", "done"} \cup SaveSteps)
    /\ [](pc = "done" => \/ result.ok /\ result.kind = "saved"
                         \/ ~result.ok /\ result.kind \in FailureMessages)
    /\ [][RefusedAtCall =>
             pc' = "done" /\ ~result'.ok /\ result'.kind \in FailureMessages]_vars
    /\ [][StepEndsCall /\ ~(pc = "update_header" /\ result'.ok) =>
             ~result'.ok /\ result'.kind \in IoFailures]_vars

\* save_rom has returned a failure for a source ROM that does not exist
\* while the session still holds a header
NeverPropagatesWitness ==
    /\ pc = "done" /\ ~result.ok
    /\ result.kind = "rom_not_found"
    /\ header.loaded /\ ~fs[original_rom_path].exists

\* the records of the finished save whose bytes the patch loop wrote: those
\* whose index lies inside the allocation table
Written ==
    {j \in 1..Len(sv.resolvable) :
        /\ sv.resolvable[j].fat_index >= 0
        /\ sv.resolvable[j].fat_index < Len(sv.fat_entries)}

\* C13: save_rom returns success only when the bytes of at least one
\* modification were written into the output, and the applied count of the
\* success message is the number of modifications written; when every
\* record is unresolved or skipped for an index outside the allocation table
\* the save fails
AppliedMeansWritten ==
    Saved => Written # {} /\ result.applied = Cardinality(Written)

-----------------------------------------------------------------------------
(* Properties of calculate_crc16                                           *)

\* one bit of the bitwise CRC-16 with the reflected polynomial 0xA001:
\* shift right, and xor the polynomial in when the bit shifted out is set
BitwiseShift(crc) ==
    IF crc % 2 = 1 THEN XOR(crc \div 2, 40961) ELSE crc \div 2

\* one byte of it: xor the byte into the low bits, then eight shifts
BitwiseByte(crc, byte) ==
    BitwiseShift(BitwiseShift(BitwiseShift(BitwiseShift(
    BitwiseShift(BitwiseShift(BitwiseShift(BitwiseShift(XOR(crc, byte)))))))))

RECURSIVE BitwiseLoop(_, _, _, _)
BitwiseLoop(data, lo, hi, crc) ==
    IF lo > hi THEN crc
    ELSE IF lo = hi THEN BitwiseByte(crc, data[lo])
    ELSE CHOOSE r \in { BitwiseLoop(data, m + 1, hi, c) :
                            m \in {(lo + hi) \div 2},
                            c \in {BitwiseLoop(data, lo, (lo + hi) \div 2, crc)} } : TRUE

\* the bitwise CRC-16 of a byte string: initial value 0xFFFF, no final xor
BitwiseCrc16(data) == BitwiseLoop(data, 1, Len(data), 65535)

\* C18: for every byte string, calculate_crc16 returns the value of the
\* bitwise CRC-16 with reflected polynomial 0xA001, initial value 0xFFFF and
\* no final xor, and the value is in 0..65535.
TableMatchesBitwise ==
    crc16.pc = "computed" =>
        /\ crc16.value = BitwiseCrc16(crc16.data)
        /\ crc16.value \in 0..65535

\* calculate_crc16 has run on the first 350 bytes of the header of "/a.n"
TableMatchesBitwiseWitness ==
    /\ crc16.pc = "computed"
    /\ crc16.data = Slice(RomImageA, 0, OFF_HEADER_CRC)
    /\ crc16.value = 28274
    /\ BitwiseCrc16(crc16.data) = 28274

-----------------------------------------------------------------------------
(* Properties of the order of the writes of build_rom                      *)

\* the steps of build_rom that write to a file
WriteSteps == {"copy", "apply", "write_fat", "update_header"}

\* the steps a step of build_rom hands over to when it succeeded
NextSteps ==
    [s \in SaveSteps |->
        IF s = "copy" THEN {"load_fat"}
        ELSE IF s = "load_fat" THEN {"apply_open"}
        ELSE IF s = "apply_open" THEN {"apply"}
        ELSE IF s = "apply" THEN {"apply", "write_fat"}
        ELSE IF s = "write_fat" THEN {"update_header"}
        ELSE {"done"}]

\* the running step ends the call with a failure
StepFailed == pc' = "done" /\ ~result'.ok

\* the running step hands over to the next one; the last one reports success
StepSucceeded ==
    IF pc = "update_header" THEN pc' = "done" /\ result'.ok
    ELSE pc' \in NextSteps[pc] /\ result' = NoResult

\* the byte positions of the output the table write and the header write own
TableRegion == (header.fat_addr + 1)..(header.fat_addr + 8 * Len(sv.modified_fat))

HeaderRegion == 1..HEADER_SIZE

\* the step changed no byte of the output outside the region
WrittenWithin(region) ==
    /\ Len(Output') >= Len(Output)
    /\ \A k \in 1..Len(Output) : k \notin region => Output'[k] = Output[k]

\* C19: in every execution of save the writes happen in the order complete
\* copy of the original to output_path, then the data patches, then the
\* allocation-table write, then the header write: a step is entered only from
\* the step before it, and only when that one succeeded; the copy leaves the
\* whole original at output_path, the table write and the header write change
\* nothing outside the table and the header; no file changes outside the
\* writing steps, and none but the output inside them; a step that fails ends
\* the call with a failure, so that no later step writes.
WriteOrder ==
    [][ /\ pc \notin WriteSteps => fs' = fs
        /\ pc' \in SaveSteps /\ pc' # pc =>
              IF pc' = "copy" THEN pc \in {"idle", "done"}
              ELSE pc \in SaveSteps /\ pc' \in NextSteps[pc]
        /\ pc \in SaveSteps =>
              /\ StepSucceeded \/ StepFailed
              /\ sv'.output_path = sv.output_path
              /\ \A p \in FsPaths \ {sv.output_path} : fs'[p] = fs[p]
        /\ pc = "copy" /\ StepSucceeded => fs'[sv.output_path] = File(Original)
        /\ pc = "write_fat" /\ StepSucceeded => WrittenWithin(TableRegion)
        /\ pc = "update_header" /\ StepSucceeded => WrittenWithin(HeaderRegion)
      ]_vars

\* a save whose table write failed: two records were patched into the copy,
\* the table and the header of the output are those of the original, and the
\* call returned a failure
WriteOrderWitness ==
    /\ pc = "done"
    /\ result = Failure("fat_write_failed")
    /\ sv.i = 2
    /\ Output # Original
    /\ TableIn(Output) = TableIn(Original)
    /\ Slice(Output, 0, HEADER_SIZE) = Slice(Original, 0, HEADER_SIZE)

-----------------------------------------------------------------------------
(* Properties of the order in which save applies the records               *)

\* the paths of the records, in the order get_all hands them to save
PathsOf(ms) == [k \in 1..Len(ms) |-> ms[k].file_path]

\* the sequence without the entries equal to key
Without(seq, key) == SelectSeq(seq, LAMBDA p : p # key)

\* the record of the path is the last one, the others kept their order
PlacedLast(path) ==
    PathsOf(mods') = Append(Without(PathsOf(mods), PathResolve(path)), PathResolve(path))

\* C20: save applies the resolved records in registration order, the place
\* of a record being that of the registration that produced it: a register
\* call with a non-empty payload puts the record of its path behind all the
\* others (after A, B, A the order is B, A), and save applies the resolved
\* ones among the records in the order the tracker holds them.
AppliedInRegistrationOrder ==
    [][/\ calls'.reg # calls.reg =>
             \A path \in TrackerPaths, data \in Payloads, t \in TrackerTypes :
                RegisterCall(path, data, t) => PlacedLast(path)
       /\ pc' = "copy" /\ pc # "copy" =>
             PathsOf(sv'.resolvable) = PathsOf(Resolvable(mods'))]_vars

-----------------------------------------------------------------------------
(* Properties of resolve_fat_index                                         *)

\* the extraction root of a ROM path: <rom stem>_extracted next to the ROM
ExtractionRoot(rom_path) ==
    Lower(PathJoin(PathParent(rom_path), PathStem(rom_path) \o EXTRACTED_SUFFIX))

\* the lower-cased path is the root or lies in a directory below it
UnderRoot(lower_str, root_str) ==
    lower_str = root_str \/ StartsWith(lower_str, root_str \o <<"/">>)

\* the path relative to a root it lies under
RelativeTo(lower_str, root_str) ==
    SubSeq(lower_str, Len(root_str) + 2, Len(lower_str))

\* s is the whole string or what follows one of its slashes
IsSlashSuffix(s, str) ==
    \/ s = str
    \/ /\ Len(s) < Len(str)
       /\ SubSeq(str, Len(str) - Len(s) + 1, Len(str)) = s
       /\ str[Len(str) - Len(s)] = "/"

SuffixKeys(map, str) == {s \in DOMAIN map : IsSlashSuffix(s, str)}

\* the value C21 gives resolve_fat_index
IndexAsStated(map, rom_path, file_path) ==
    LET lower_str == Lower(file_path)
        root_str == ExtractionRoot(rom_path)
        keys == SuffixKeys(map, lower_str)
    IN  IF /\ rom_path # NoPath
           /\ UnderRoot(lower_str, root_str)
           /\ RelativeTo(lower_str, root_str) \in DOMAIN map
        THEN map[RelativeTo(lower_str, root_str)]
        ELSE IF keys # {}
        THEN map[CHOOSE s \in keys : \A t \in keys : Len(t) <= Len(s)]
        ELSE -1

\* C21: resolve_fat_index returns index[rel] when the path lies under the
\* extraction root and its lower-cased root-relative path rel is a key;
\* otherwise the id of the longest slash-separated suffix of the lower-cased
\* absolute path that is a key; and -1 if and only if neither is a key.
ResolvesAsStated ==
    resolve.pc = "resolved" =>
        /\ resolve.value = IndexAsStated(resolve.map, resolve.rom_path, resolve.file_path)
        /\ resolve.value = -1 <=>
              /\ SuffixKeys(resolve.map, Lower(resolve.file_path)) = {}
              /\ ~ /\ resolve.rom_path # NoPath
                   /\ UnderRoot(Lower(resolve.file_path), ExtractionRoot(resolve.rom_path))
                   /\ RelativeTo(Lower(resolve.file_path), ExtractionRoot(resolve.rom_path))
                         \in DOMAIN resolve.map

-----------------------------------------------------------------------------
(* Properties of the directory walk                                        *)

\* the files of the two directories of a table, in the order of their lists
RootFiles == << <<"x">>, <<"w">> >>

SubFiles(shape) == SubSeq(<< <<"d", "/", "z">>, <<"d", "/", "v">> >>, 1, shape.sub_files)

\* the files of the root listed behind the entry of d
BehindSubdir(shape) == {RootFiles[k] : k \in (shape.sub_at + 1)..2}

\* the files of d walked before the k-th file of the root is reached
WalkedBefore(shape, k) == IF shape.sub_at < k THEN shape.sub_files ELSE 0

\* the index holds the files of the table and nothing else
AllListed(shape, index) ==
    DOMAIN index = {RootFiles[k] : k \in 1..2}
                   \cup {SubFiles(shape)[k] : k \in 1..shape.sub_files}

-----------------------------------------------------------------------------
(* Properties of back-references in decompress_lz10                        *)

\* the bytes after the header of a stream
Body(packed) == SubSeq(packed, 5, Len(packed))

\* the stream without the first op of its first group, a back-reference:
\* its two bytes are taken out and its flag bit is shifted out
WithoutFirstOp(packed) ==
    SubSeq(packed, 1, 4) \o <<(packed[5] * 2) % 256>> \o SubSeq(packed, 8, Len(packed))

\* C23: a back-reference whose distance exceeds the number of bytes produced
\* so far takes its two bytes from the input, appends nothing, and the ops
\* behind it are decoded: a stream whose first op is a back-reference (no
\* byte is produced yet) decodes to what the stream without that op decodes
\* to; and every byte of the output is a literal byte of the input or a copy
\* of one, so it occurs in the input behind the header.
BackReferenceSkipped ==
    lz.pc = "raw_decoded" /\ Len(lz.packed) >= 4 /\ lz.packed[1] = LZ_TAG =>
        /\ ~lz.result.fault
        /\ \A k \in 1..Len(lz.result.out) :
              \E j \in 1..Len(Body(lz.packed)) : lz.result.out[k] = Body(lz.packed)[j]
        /\ /\ DeclaredSize(lz.packed) > 0
           /\ Len(lz.packed) >= 7
           /\ lz.packed[5] >= 128
           /\ Len(lz.packed) - 7 < 7
           => lz.result = decompress_lz10(WithoutFirstOp(lz.packed))

\* a literal, a back-reference of distance 6 with one byte produced, two
\* literals: the output is the three literals
BackReferenceSkippedWitness ==
    /\ lz.pc = "raw_decoded"
    /\ lz.packed = LzHeader(5) \o <<64, 65, 0, 5, 66, 67>>
    /\ lz.result = Returned(<<65, 66, 67>>)

-----------------------------------------------------------------------------
(* Properties of the tracker across a save                                 *)

\* path, payload and kind of the records, in tracker order
ContentOf(ms) == [k \in 1..Len(ms) |-> <<ms[k].file_path, ms[k].new_data, ms[k].mod_type>>]

PathSet(ms) == {ms[k].file_path : k \in 1..Len(ms)}

\* C24: save consumes the records without deleting them: from the call of
\* save_rom to its return no step changes the path, payload or kind of a
\* record, and a resolved index changes only from -1; a path leaves the
\* tracker only in a remove, clear or reset call (reset clears through the
\* same cache.clear()); and a save called on an empty tracker, as after
\* clear, returns a failure without writing, "no modifications" when a ROM
\* is loaded.
RecordsSurviveSave ==
    [][/\ SaveRomCalled \/ pc \in SaveSteps =>
             /\ ContentOf(mods') = ContentOf(mods)
             /\ \A k \in 1..Len(mods) :
                   mods'[k].fat_index = mods[k].fat_index \/ mods[k].fat_index = -1
       /\ ~(PathSet(mods) \subseteq PathSet(mods')) => calls'.other = calls.other + 1
       /\ SaveRomCalled /\ mods = <<>> =>
             /\ pc' = "done" /\ ~result'.ok /\ fs' = fs
             /\ result'.kind \in {"no_modifications", "not_initialized"}
             /\ is_initialized(Cache) => result'.kind = "no_modifications"]_vars

\* a save has succeeded and the tracker still holds both records, now with
\* their resolved indexes
RecordsSurviveSaveWitness ==
    /\ Saved
    /\ Len(mods) = 2
    /\ \A k \in 1..2 : mods[k].fat_index >= 0

-----------------------------------------------------------------------------
(* Properties of the session's header across a save                        *)

\* C25: save leaves the session's in-memory header as open_rom loaded it:
\* no step from the call of save_rom to its return changes a field of it,
\* rom_size and header_crc16 included.
HeaderBorrowedReadOnly ==
    [][SaveRomCalled \/ pc \in SaveSteps => header' = header]_vars

-----------------------------------------------------------------------------
(* Properties of the session as a state machine                            *)

\* no ROM path or no header: the state of a fresh session
Uninitialized == original_rom_path = NoPath /\ ~header.loaded

\* C26: the session follows Uninitialized -> HeaderLoaded -> IndexBuilt ->
\* AcceptingModifications -> Rebuilding -> Saved | Failed: a session in
\* which initialize was never called and a session after reset are
\* Uninitialized; save_rom called without a ROM path, without a header or
\* without a record returns a failure at once, from Uninitialized the
\* failure "not initialized"; the call itself writes no file, and a file is
\* written only by a step of a save that was called with a ROM path, a
\* header and at least one record; once a save has returned, with success
\* or failure, a registration with a payload is accepted, and a save called
\* then is refused only for what save_rom refuses in any state.
SessionStateMachine ==
    [][/\ calls.init = 0 => Uninitialized
       /\ Reset => Uninitialized'
       /\ SaveRomCalled =>
             /\ fs' = fs
             /\ original_rom_path = NoPath \/ ~header.loaded \/ mods = <<>> =>
                   pc' = "done" /\ ~result'.ok
             /\ Uninitialized => result' = Failure("not_initialized")
       /\ fs' # fs =>
             /\ pc \in SaveSteps
             /\ original_rom_path # NoPath /\ header.loaded /\ mods # <<>>
       /\ pc = "done" =>
             /\ \A path \in ModPaths, data \in Payloads, t \in ModTypes :
                   /\ register(mods, path, data, t).ok
                   /\ RegisterCall(path, data, t) => pc' = "idle"
             /\ SaveRomCalled /\ ~RefusedAtCall => pc' = "copy"]_vars

\* a second save has succeeded after a first one had returned
SessionStateMachineWitness ==
    /\ Saved
    /\ calls.save = 2
    /\ calls.reg = 2

-----------------------------------------------------------------------------
(* Properties of a failed initialize                                       *)

\* initialize(rom) is called and returns False
InitializeFails(rom) ==
    /\ Idle
    /\ calls'.init = calls.init + 1
    /\ original_rom_path' = rom
    /\ ~initialize(Cache, fs, rom).ok

\* the session's ROM path names a file initialize cannot load a header
\* from: the last initialize returned False
LastInitializeFailed ==
    /\ original_rom_path # NoPath
    /\ ~load_header(NewCache, fs, original_rom_path).ok

\* C27: whenever initialize(rom) returns False the session is not
\* initialized afterwards, also when an earlier initialize of another ROM
\* had succeeded: is_initialized() is False in the state the call leaves,
\* and a save_rom called while that ROM path is the session's returns a
\* failure at once and writes nothing.
FailedInitializeUninitializes ==
    [][/\ \A rom \in RomPaths :
             InitializeFails(rom) => ~is_initialized(Cache')
       /\ SaveRomCalled /\ LastInitializeFailed =>
             pc' = "done" /\ ~result'.ok /\ fs' = fs]_vars

-----------------------------------------------------------------------------
(* Properties of the indexes save applies                                  *)

\* the directory index of the ROM the session's path names: parsed from
\* that file with the header read from that file
LoadedRomIndex ==
    initialize(NewCache, fs, original_rom_path).cache.fat_index_map

\* C28: at the moment save applies a record, its resolved index is what
\* resolve_fat_index returns for its path against the directory index of
\* the ROM loaded in the session, whatever initialize, register and save
\* calls came before.
AppliedIndexIsCurrent ==
    pc = "apply" /\ sv.i < Len(sv.resolvable) =>
        \E m \in {sv.resolvable[sv.i + 1]} :
            m.fat_index = resolve_fat_index(LoadedRomIndex, original_rom_path, m.file_path)

-----------------------------------------------------------------------------
(* Properties of the layout a save produces                                *)

\* length of the ROM the save copied
OriginalLength == Len(fs[original_rom_path].data)

\* every entry of the table read from the original ROM lies inside the file
TableInsideOriginal ==
    \A k \in 1..Len(sv.fat_entries) :
        /\ 0 <= sv.fat_entries[k].start_addr
        /\ sv.fat_entries[k].start_addr <= sv.fat_entries[k].end_addr
        /\ sv.fat_entries[k].end_addr <= OriginalLength

\* entries of the written table that no longer start where they started
RelocatedEntries ==
    {k \in 1..Len(sv.modified_fat) :
        sv.modified_fat[k].start_addr # sv.fat_entries[k].start_addr}

RangesDisjoint(e1, e2) ==
    e1.end_addr <= e2.start_addr \/ e2.end_addr <= e1.start_addr

\* the largest end offset among the relocated entries
LastRelocatedEnd ==
    CHOOSE e \in {sv.modified_fat[k].end_addr : k \in RelocatedEntries} :
        \A k \in RelocatedEntries : sv.modified_fat[k].end_addr <= e

\* C29: when every entry of the original table lies inside the original
\* file, then after a save every relocated entry starts at a multiple of 4
\* not below the original file length, relocated ranges are pairwise
\* disjoint and disjoint from the original image, and the output file ends
\* where the last relocated entry ends (at the original length when nothing
\* was relocated).
RelocatedBeyondOriginal ==
    Saved /\ TableInsideOriginal =>
        /\ \A k \in RelocatedEntries :
              /\ sv.modified_fat[k].start_addr % 4 = 0
              /\ sv.modified_fat[k].start_addr >= OriginalLength
        /\ \A k1, k2 \in RelocatedEntries :
              k1 # k2 => RangesDisjoint(sv.modified_fat[k1], sv.modified_fat[k2])
        /\ Len(fs[sv.output_path].data) =
              IF RelocatedEntries = {} THEN OriginalLength ELSE LastRelocatedEnd

-----------------------------------------------------------------------------
(* Properties of the directory walk on arbitrary bytes                     *)

\* a mapping of non-empty paths to file ids
IsPathIndex(m) == \A k \in DOMAIN m : k # <<>> /\ m[k] \in Nat

\* C30: FNTParser.parse returns for every ROM byte string and table
\* position, cyclic subdirectory references, unterminated entry lists and
\* lengths or offsets past the end included; what it returns is a map of
\* paths to ids (the index as built when an error ended the walk), and no
\* read of the walk ends behind the last ROM byte.
ParseAlwaysReturns ==
    /\ [](walk.pc = "parsed" =>
            /\ walk.index = walk.result.index
            /\ IsPathIndex(walk.index)
            /\ walk.result.top <= Len(walk.rom))
    /\ (walk.pc = "input" ~> walk.pc = "parsed")

\* a table with a cycle was parsed: the walk ended by an error and the
\* files indexed before it are returned
ParseAlwaysReturnsWitness ==
    /\ walk.pc = "parsed"
    /\ walk.result.raised
    /\ walk.index # <<>>

====
